---- MODULE Spec2Model ----
(***************************************************************************)
(* State-machine model of the SIS scraper's concurrent scraping engine    *)
(* (src/sis_scraper/sis_scraper.py, src/sis_scraper/sis_api.py).           *)
(*                                                                         *)
(* One asyncio event loop runs main, one get_term_course_data task per    *)
(* term, one get_subj_course_data task per (term, subject), and inside a  *)
(* subject one process_class_details task per class with one task per     *)
(* detail endpoint.  A step of the model is what a task does between two  *)
(* suspension points; an HTTP GET attempt (request and response) is one   *)
(* step whose outcome is an input.                                        *)
(***************************************************************************)
EXTENDS Integers, Sequences, FiniteSets, TLC

(* ---- bounds of the model ---- *)
MaxPad == 1
MaxEntries == 2
NumTerms == 2
MaxSubjects == 2
MaxClasses == 1
SessionCap == 1
MaxFaultyFetches == 1
SeasonsPerYear == 2
NumTasks == 2
NumVals == 2
MaxItems == 2
MaxSpans == 4
MaxFaculty == 2
MaxRuns == 2

(* ---- program constants ---- *)
MaxAttempts == 3

Terms == 1..NumTerms
SubjCodes == 1..MaxSubjects
ClassIds == 1..MaxClasses
Workers == Terms \X SubjCodes

\* The six detail tasks of process_class_details in creation order;
\* get_class_prerequisites returns {} without issuing a request, the other
\* five go through retry_get.
DetailOrder ==
    <<"description", "attributes", "restrictions", "prerequisites",
      "corequisites", "crosslists">>
DetailKinds == {DetailOrder[i] : i \in DOMAIN DetailOrder}
HttpDetailKinds == DetailKinds \ {"prerequisites"}
DetailIndex(k) == CHOOSE i \in DOMAIN DetailOrder : DetailOrder[i] = k

\* Outcome of one GET attempt inside retry_get: a body, asyncio.TimeoutError,
\* or the ClientResponseError that raise_for_status raises for a status >= 400.
HttpOutcomes == {"ok", "timeout", "http5xx", "http4xx"}
FailOutcomes == HttpOutcomes \ {"ok"}

\* retry=retry_if_exception_type((asyncio.TimeoutError, aiohttp.ClientError)):
\* a timeout and the ClientResponseError of any status >= 400 are retried.
retry_if_exception_type_no4xx(o) == o \in {"timeout", "http5xx"}
retry_if_exception_type(o) == o \in {"timeout", "http5xx", "http4xx"}

\* stop=stop_after_attempt(3)
stop_after_attempt_late(n) == n >= MaxAttempts + 1
stop_after_attempt(n) == n >= MaxAttempts

\* What the retry wrapper of retry_get does after attempt number n ended with
\* outcome o: return the body, raise the attempt's own exception (not a
\* retried type), raise RetryError (stop reached; the wrapper is built
\* without reraise), or sleep and try again.
retry_get(n, o) ==
    IF o = "ok" THEN "returned"
    ELSE IF ~retry_if_exception_type(o) THEN "raised"
    ELSE IF stop_after_attempt(n) THEN "RetryError"
    ELSE "retry"

\* The exception a fetch that does not return raises.
FetchError(n, o) == IF retry_get(n, o) = "RetryError" THEN "RetryError" ELSE "ClientError"

\* State of a retry_get call: attempts made so far and the latest outcome.
NoAttempt == [n |-> 0, last |-> "none"]
Attempt(a, o) == [n |-> a.n + 1, last |-> o]

\* The except clauses.
subj_catches(exc) == exc = "ClientError"
term_list_catches(exc) == exc = "ClientError"
term_group_catches(exc) == exc \in {"RetryError", "JSONDecodeError", "ExceptionGroup", "ClientError"}

\* Sessions are objects created by a task; a session is identified by the
\* invocation that constructed it.
TermSession(t) == <<"term", t, 0>>
SubjSession_shared(w) == <<"term", w[1], 0>>
SubjSession(w) == <<"subj", w[1], w[2]>>
Sessions == {TermSession(t) : t \in Terms} \cup {SubjSession(w) : w \in Workers}

\* Subject lists the server may answer with: distinct codes, any order.
SubjectLists ==
    {q \in UNION {[1..n -> SubjCodes] : n \in 0..MaxSubjects} :
        \A i, j \in DOMAIN q : i # j => q[i] # q[j]}

Range(q) == {q[i] : i \in DOMAIN q}

NoReq == [kind |-> "none", term |-> 0, ok |-> FALSE]

\* The four code-to-name maps in the order main writes their files.
MapOrder == <<"attribute", "instructor", "restriction", "subject">>
MapNames == {MapOrder[i] : i \in DOMAIN MapOrder}
MapIndex(m) == CHOOSE i \in DOMAIN MapOrder : MapOrder[i] = m

\* main creates the term tasks year by year and, within a year, season by
\* season: term t is the task of year YearOf(t).
YearOf(t) == (t - 1) \div SeasonsPerYear
\* The list `tasks` main builds: the append follows the loop over the
\* seasons, so it adds the task created last in each year.
tasks == {t \in Terms : \A u \in Terms : YearOf(u) = YearOf(t) => u <= t}

VARIABLES
    mpc,          \* main: "start", "group" (inside the task group), "done"
    mret,         \* main's return value: "none", "True", "False"
    mapWrites,    \* per code-map file, how many times main has written it
    num_terms_processed,  \* main's count of the tasks whose result was true
    tpc,          \* term driver position
    tret,         \* term driver outcome: "none", "True", "False", "raised", "cancelled"
    tcancel,      \* main's task group has cancelled the term task
    tatt,         \* outcomes of the attempts of the term's running retry_get
    subjects,     \* the subject list the term driver fetched
    termFile,     \* the term file: <<>> while unwritten, else <<term_course_data>>
    twrote,       \* outcome of the term file write: "none", "ok", "failed"
    wpc,          \* subject worker position
    wexc,         \* exception that ended the subject's work, "none" if none
    wcancel,      \* the term's task group has cancelled the worker task
    watt,         \* outcomes of the attempts of the worker's running retry_get
    dpend,        \* detail fetches of the worker's classes still running
    datt,         \* outcomes of the attempts of each running detail fetch
    subj_class_data, \* classes appended to the worker's course map
    wret,         \* the course map the worker returned
    semaphore,    \* value of the session semaphore
    openSessions, \* sessions currently open
    connector_closed, \* the TCPConnector main created has been closed
    faulty,       \* fetches of the run that met a failure (bounded by MaxFaultyFetches)
    lastReq,      \* per session, the most recent request issued through it
    searchPrev,   \* what preceded each class_search attempt on its session
    sessionUse,   \* <<session, worker>> for every request a worker issued
    fetched       \* finished fetches: [outcomes, result]

\* State of the parts of the program that are checked under specifications
\* of their own: one call of get_term_code; and the data one subject worker
\* assembles from its class entries, with the four code-to-name maps.
VARIABLES
    year,         \* the year argument of get_term_code
    season,       \* the season argument of get_term_code
    term_code     \* what get_term_code returned, <<"pending">> before the call

VARIABLES
    class_data,   \* the class entries class_search returned, with the details
                  \* the server holds for each
    cpc,          \* per entry, its process_class_details task: "fetch", "ready",
                  \* "done", "failed", "cancelled"
    cdone,        \* per entry, how many of its six detail tasks have returned
    course_data,  \* the subject's course map: <<[num, classes]>> in insertion order
    spc,          \* the subject worker: "idle", "group", "returned", "raised"
    sret,         \* the course map the subject worker returned
    listed,       \* how many terms have listed their subjects
    subject_code_name_map,
    instructor_rcsid_name_map,
    attribute_code_name_map,
    restriction_code_name_map,
    upserts,      \* the upserts made: [map, conflict, logged, stored]
    attr_last,    \* per attribute code, the name in the latest well-formed string
    restr_after,  \* per entry processed, restriction_code_name_map right after it
    updated,      \* the entries whose map updates have been applied
    loaded_maps,  \* the four dictionaries as main loaded them from their files
    map_files     \* the dictionary files main wrote at the end: <<>> or <<maps>>

VARIABLES
    cli_pc,       \* the command-line program: "idle", "config", "scrape",
                  \* "postprocess", "exited"
    exit_code,    \* <<>> while the program runs, else <<its exit code>>
    has_parent,   \* the script's parent directory could be determined
    dotenv,       \* what load_dotenv() returns
    environ,      \* the required environment variables that are set
    logs_ok,      \* logging_init does not raise
    args,         \* "both", "scrape_only", "postprocess_only"
    scrape_ret,   \* sis_scraper.main: "none", "True", "False", "raised"
    post_ret      \* postprocess.main: "none", "True", "False", "raised"

VARIABLES
    loop_task,    \* the task the event loop is running, 0 when it runs none
    upc,          \* per task [at, left]: "new", "await", "check", "set", "done"
                  \* and the number of items it has still to upsert
    ukind,        \* per task "aggregator" (process_class_details) or "term"
    useen,        \* per task, the item under upsert and what its check read
    umaps,        \* per shared dictionary, the entry of the key: <<>> or
                  \* <<[val, by]>>, the value and the task that stored it
    torn          \* an upsert wrote after the entry it had checked was replaced

VARIABLES
    restrictions_content,  \* the spans of the restrictions section
    span_i,                \* get_class_restrictions' index i, counted from 1
    ploop,                 \* "idle", "outer", "inner", "returned", "raised"
    restriction_list,      \* the key of restrictions_data the items go to
    next_content_string,   \* the item buffer
    restrictions_data,     \* per key, the items emitted
    examined               \* per span, how many loop iterations have read it

VARIABLES
    term_data,    \* the snapshot process_term works on, subject by subject
    mapper,       \* the CodeMapper
    post_pc,      \* "idle", "ready", "returned", "raised"
    post_log,     \* the warnings process_term has logged
    syntheses,    \* the calls of _generate_rcsid: [name, rcsid, keys]
    runs,         \* how many times process_term has run on the snapshot
    raw_data,     \* the snapshot as the scraper wrote it
    prev_data     \* the snapshot before the latest run

VARIABLES
    page,         \* per detail endpoint, the shape of the HTML the server sent
    detail_ret,   \* per detail task: <<>> while it runs, else <<its outcome>>
    detail_log,   \* the warnings the detail calls have logged
    class_task,   \* the class's process_class_details task: "idle", "group",
                  \* "done", "failed"
    subj_task     \* the subject worker: "idle", "group", "returned", "raised"

codeVars == <<year, season, term_code>>
detailVars == <<page, detail_ret, detail_log, class_task, subj_task>>
cliVars == <<cli_pc, exit_code, has_parent, dotenv, environ, logs_ok, args, scrape_ret,
             post_ret>>
loopVars == <<loop_task, upc, ukind, useen, umaps, torn>>
parserVars == <<restrictions_content, span_i, ploop, restriction_list, next_content_string,
                restrictions_data, examined>>
postVars == <<term_data, mapper, post_pc, post_log, syntheses, runs, raw_data, prev_data>>
restVars == <<cliVars, loopVars, parserVars, postVars, detailVars>>
dataVars == <<class_data, cpc, cdone, course_data, spc, sret, listed, subject_code_name_map,
              instructor_rcsid_name_map, attribute_code_name_map,
              restriction_code_name_map, upserts, attr_last, restr_after, updated,
              loaded_maps, map_files>>

engineVars == <<mpc, mret, mapWrites, num_terms_processed, tpc, tret, tcancel, tatt, subjects, termFile, twrote,
                wpc, wexc, wcancel, watt, dpend, datt, subj_class_data, wret, semaphore,
                openSessions, connector_closed, faulty, lastReq, searchPrev, sessionUse,
                fetched>>

vars == <<engineVars, codeVars, dataVars, restVars>>

mainVars == <<mpc, mret, mapWrites, num_terms_processed>>
termVars == <<tpc, tret, tcancel, tatt, subjects, termFile, twrote>>
workVars == <<wpc, wexc, wcancel, watt, dpend, datt, subj_class_data, wret>>
histVars == <<lastReq, searchPrev, sessionUse, fetched>>

WorkerHolding == {"reset", "search", "details"}
WorkerFinished == {"returned", "raised", "cancelled"}
TermFinished == {"True", "False", "raised", "cancelled"}

\* The engine before main has run.
EngineInit ==
    /\ mpc = "start"
    /\ mret = "none"
    /\ mapWrites = [m \in MapNames |-> 0]
    /\ num_terms_processed = 0
    /\ tpc = [t \in Terms |-> "new"]
    /\ tret = [t \in Terms |-> "none"]
    /\ tcancel = [t \in Terms |-> FALSE]
    /\ tatt = [t \in Terms |-> NoAttempt]
    /\ subjects = [t \in Terms |-> <<>>]
    /\ termFile = [t \in Terms |-> <<>>]
    /\ twrote = [t \in Terms |-> "none"]
    /\ wpc = [w \in Workers |-> "new"]
    /\ wexc = [w \in Workers |-> "none"]
    /\ wcancel = [w \in Workers |-> FALSE]
    /\ watt = [w \in Workers |-> NoAttempt]
    /\ dpend = [w \in Workers |-> {}]
    /\ datt = [w \in Workers |-> [d \in ClassIds \X HttpDetailKinds |-> NoAttempt]]
    /\ subj_class_data = [w \in Workers |-> {}]
    /\ wret = [w \in Workers |-> {}]
    /\ semaphore = SessionCap
    /\ openSessions = {}
    /\ connector_closed = FALSE
    /\ faulty = 0
    /\ lastReq = [s \in Sessions |-> NoReq]
    /\ searchPrev = {}
    /\ sessionUse = {}
    /\ fetched = {}

\* No get_term_code call is under check.
NoCall == <<"none">>
CodeIdle == year = NoCall /\ season = NoCall /\ term_code = NoCall

\* A dict with no key.
EmptyMap == [k \in {} |-> <<>>]

\* No subject's class data is under check.
DataIdle ==
    /\ class_data = <<>> /\ cpc = <<>> /\ cdone = <<>> /\ course_data = <<>>
    /\ spc = "idle" /\ sret = <<>> /\ listed = 0
    /\ subject_code_name_map = EmptyMap
    /\ instructor_rcsid_name_map = EmptyMap
    /\ attribute_code_name_map = EmptyMap
    /\ restriction_code_name_map = EmptyMap
    /\ upserts = {} /\ attr_last = EmptyMap /\ restr_after = EmptyMap /\ updated = {}
    /\ loaded_maps = EmptyMap /\ map_files = <<>>

\* The command-line program is not under check.
CliIdle ==
    /\ cli_pc = "idle" /\ exit_code = <<>> /\ has_parent = TRUE /\ dotenv = TRUE
    /\ environ = {} /\ logs_ok = TRUE /\ args = "both"
    /\ scrape_ret = "none" /\ post_ret = "none"

\* The tasks whose upserts are under check, and the dictionaries an
\* aggregator and a term driver upsert with a conflict check.
Tasks == 1..NumTasks
Vals == 1..NumVals
TaskKinds == {"aggregator", "term"}
CheckedMaps(kind) == IF kind = "term" THEN {"subject"} ELSE {"attribute", "restriction"}
NoItem == [map |-> "none", val |-> 0, seen |-> <<>>]

\* No task has been created.
LoopInit ==
    /\ loop_task = 0
    /\ upc = [x \in Tasks |-> [at |-> "new", left |-> 0]]
    /\ ukind = [x \in Tasks |-> "aggregator"]
    /\ useen = [x \in Tasks |-> NoItem]
    /\ umaps = [m \in MapNames |-> <<>>]
    /\ torn = FALSE

\* No restrictions section is being parsed.
NoKey == <<"none">>
ParserIdle ==
    /\ restrictions_content = <<>> /\ span_i = 1 /\ ploop = "idle"
    /\ restriction_list = NoKey /\ next_content_string = <<>>
    /\ restrictions_data = EmptyMap
    /\ examined = <<>>

\* No snapshot is being post-processed.
PostIdle ==
    /\ term_data = <<>> /\ mapper = EmptyMap /\ post_pc = "idle" /\ post_log = {}
    /\ syntheses = <<>> /\ runs = 0 /\ raw_data = <<>> /\ prev_data = <<>>

\* No class's detail pages are being parsed.
DetailIdle ==
    /\ page = EmptyMap /\ detail_ret = EmptyMap /\ detail_log = {}
    /\ class_task = "idle" /\ subj_task = "idle"

RestIdle == CliIdle /\ LoopInit /\ ParserIdle /\ PostIdle /\ DetailIdle

Init == EngineInit /\ CodeIdle /\ DataIdle /\ RestIdle

\* A fetch that has met no failure yet may meet one only while the run's
\* budget of faulty fetches lasts.
Allowed(a, o) == o = "ok" \/ a.n > 0 \/ faulty < MaxFaultyFetches
Spend(a, o) == IF o # "ok" /\ a.n = 0 THEN faulty + 1 ELSE faulty
MayCorrupt(a) == a.n > 0 \/ faulty < MaxFaultyFetches
Corrupt(a) == IF a.n = 0 THEN faulty + 1 ELSE faulty

\* Bookkeeping of one GET attempt of kind k for term t on session s; a
\* session that is closed has no most recent request any more.
Request(s, k, t, o) == [lastReq EXCEPT ![s] = [kind |-> k, term |-> t, ok |-> (o = "ok")]]
Closed(s) == [lastReq EXCEPT ![s] = NoReq]
\* The record of a fetch that ends with the attempt a.
Finished(a) ==
    IF retry_get(a.n, a.last) = "retry" THEN fetched
    ELSE fetched \cup {[n |-> a.n, last |-> a.last, result |-> retry_get(a.n, a.last)]}

(* ---- main ---- *)

\* main up to the first suspension inside the task group: the semaphore is
\* created and one get_term_course_data task is created per term; each task
\* then runs to its first await, which opens its transient session.
main_start ==
    /\ mpc = "start"
    /\ mpc' = "group"
    /\ tpc' = [t \in Terms |-> "list"]
    /\ openSessions' = openSessions \cup {TermSession(t) : t \in Terms}
    /\ UNCHANGED connector_closed
    /\ UNCHANGED <<mret, mapWrites, num_terms_processed, tret, tcancel, tatt, subjects,
                   termFile, twrote,
                   workVars, semaphore, faulty, histVars>>
    /\ UNCHANGED <<codeVars, dataVars, restVars>>

\* TaskGroup._abort of main's group: a term task raised, the terms still
\* running are cancelled.
main_abort ==
    /\ mpc = "group"
    /\ \E t \in Terms : tret[t] = "raised"
    /\ \E t \in Terms : tret[t] = "none" /\ ~tcancel[t]
    /\ tcancel' = [t \in Terms |-> tcancel[t] \/ tret[t] = "none"]
    /\ UNCHANGED <<mainVars, tpc, tret, tatt, subjects, termFile, twrote, workVars,
                   semaphore, openSessions, connector_closed, faulty, histVars>>
    /\ UNCHANGED <<codeVars, dataVars, restVars>>

\* TaskGroup.__aexit__ of main's group returns once every term task is done.
group_exited_first == \E t \in Terms : tret[t] \in TermFinished
group_exited == \A t \in Terms : tret[t] \in TermFinished

\* What main returns: False from except Exception when the task group raised,
\* False when writing a code-map file raised, True otherwise.
main_return_ignoring_group(raised, failed) == IF failed THEN "False" ELSE "True"
main_return(raised, failed) == IF raised \/ failed THEN "False" ELSE "True"

\* The code-map files main writes when paths are given for the maps in
\* `given` and the write of `failing` raises: the files are written in
\* MapOrder and the first failure ends the block.
MapsWritten(given, failing) ==
    {m \in given : failing \notin given \/ MapIndex(m) < MapIndex(failing)}

\* The task group exits once every term task is done, and so does the block
\* of the TCPConnector around it, which closes it.  An exception of a term
\* task is re-raised there as an ExceptionGroup and caught by main's except
\* Exception, which returns False; otherwise main goes on, without
\* suspending, to count the tasks of `tasks` whose result is true, write
\* the code-map files and return.
main_join(given, failing) ==
    /\ mpc = "group"
    /\ group_exited
    /\ given \subseteq MapNames
    /\ failing \in MapNames \cup {"none"}
    /\ mpc' = "done"
    /\ LET raised == \E t \in Terms : tret[t] = "raised"
           written == IF raised THEN {} ELSE MapsWritten(given, failing)
       IN
       /\ mapWrites' = [m \in MapNames |-> mapWrites[m] + (IF m \in written THEN 1 ELSE 0)]
       /\ num_terms_processed' =
              IF raised THEN num_terms_processed
              ELSE Cardinality({t \in tasks : tret[t] = "True"})
       /\ mret' = main_return(raised, ~raised /\ failing \in given)
    /\ connector_closed' = TRUE
    /\ UNCHANGED <<termVars, workVars, semaphore, openSessions, faulty, histVars>>
    /\ UNCHANGED <<codeVars, dataVars, restVars>>

(* ---- get_term_course_data ---- *)

TermWorkers(t) == {w \in Workers : w[1] = t /\ w[2] \in Range(subjects[t])}

\* An exception leaves the subject-list block: the transient session is
\* closed by its async with, and the except clause decides what happens.
TermListExit(t, exc) ==
    /\ openSessions' = openSessions \ {TermSession(t)}
    /\ UNCHANGED connector_closed
    /\ lastReq' = Closed(TermSession(t))
    /\ tpc' = [tpc EXCEPT ![t] = "done"]
    /\ tret' = [tret EXCEPT ![t] = IF term_list_catches(exc) THEN "False" ELSE "raised"]
    /\ tatt' = [tatt EXCEPT ![t] = NoAttempt]

\* The value get_term_course_data returns once no exception is pending,
\* given the assembled term_course_data and whether the file write succeeded.
term_return_if_data(data, written) ==
    IF \A i \in DOMAIN data : data[i].courses = {} THEN "False"
    ELSE IF ~written THEN "False"
    ELSE "True"
term_return(data, written) ==
    IF Len(data) = 0 THEN "False"
    ELSE IF ~written THEN "False"
    ELSE "True"

\* A GET attempt of get_term_subjects fails.
get_term_subjects_fail(t, o) ==
    /\ tpc[t] = "list" /\ ~tcancel[t]
    /\ o \in FailOutcomes /\ Allowed(tatt[t], o)
    /\ faulty' = Spend(tatt[t], o)
    /\ fetched' = Finished(Attempt(tatt[t], o))
    /\ LET att == Attempt(tatt[t], o) IN
       IF retry_get(att.n, o) = "retry"
       THEN /\ tatt' = [tatt EXCEPT ![t] = att]
            /\ lastReq' = Request(TermSession(t), "get_subject", t, o)
            /\ UNCHANGED <<tpc, tret, openSessions, connector_closed>>
       ELSE TermListExit(t, FetchError(att.n, o))
    /\ UNCHANGED <<mainVars, tcancel, subjects, termFile, twrote, workVars, semaphore,
                   searchPrev, sessionUse>>
    /\ UNCHANGED <<codeVars, dataVars, restVars>>

\* A GET attempt of get_term_subjects succeeds with a body json.loads or the
\* subject loop cannot process.
get_term_subjects_malformed(t) ==
    /\ tpc[t] = "list" /\ ~tcancel[t]
    /\ MayCorrupt(tatt[t])
    /\ faulty' = Corrupt(tatt[t])
    /\ fetched' = Finished(Attempt(tatt[t], "ok"))
    /\ TermListExit(t, "JSONDecodeError")
    /\ UNCHANGED <<mainVars, tcancel, subjects, termFile, twrote, workVars, semaphore,
                   searchPrev, sessionUse>>
    /\ UNCHANGED <<codeVars, dataVars, restVars>>

\* A GET attempt of get_term_subjects succeeds with the subject list q.  The
\* transient session closes; with no subject the task group is empty and the
\* function runs on to "return False"; otherwise one get_subj_course_data task
\* is created per subject and the driver waits in the task group.
get_term_subjects_ok(t, q) ==
    /\ tpc[t] = "list" /\ ~tcancel[t]
    /\ q \in SubjectLists
    /\ lastReq' = Closed(TermSession(t))
    /\ fetched' = Finished(Attempt(tatt[t], "ok"))
    /\ openSessions' = openSessions \ {TermSession(t)}
    /\ UNCHANGED connector_closed
    /\ tatt' = [tatt EXCEPT ![t] = NoAttempt]
    /\ subjects' = [subjects EXCEPT ![t] = q]
    /\ IF Len(q) = 0
       THEN /\ tpc' = [tpc EXCEPT ![t] = "done"]
            /\ tret' = [tret EXCEPT ![t] = term_return(<<>>, FALSE)]
            /\ UNCHANGED wpc
       ELSE /\ tpc' = [tpc EXCEPT ![t] = "group"]
            /\ wpc' = [w \in Workers |->
                         IF w[1] = t /\ w[2] \in Range(q) THEN "acquire" ELSE wpc[w]]
            /\ UNCHANGED tret
    /\ UNCHANGED <<mainVars, tcancel, termFile, twrote, wexc, wcancel, watt, dpend, datt,
                   subj_class_data, wret, semaphore, faulty, searchPrev, sessionUse>>
    /\ UNCHANGED <<codeVars, dataVars, restVars>>

\* The term task is cancelled while it waits for the subject list.
get_term_course_data_cancelled(t) ==
    /\ tpc[t] = "list" /\ tcancel[t]
    /\ openSessions' = openSessions \ {TermSession(t)}
    /\ UNCHANGED connector_closed
    /\ tpc' = [tpc EXCEPT ![t] = "done"]
    /\ tret' = [tret EXCEPT ![t] = "cancelled"]
    /\ tatt' = [tatt EXCEPT ![t] = NoAttempt]
    /\ lastReq' = Closed(TermSession(t))
    /\ UNCHANGED <<mainVars, tcancel, subjects, termFile, twrote, workVars, semaphore,
                   faulty, searchPrev, sessionUse, fetched>>
    /\ UNCHANGED <<codeVars, dataVars, restVars>>

\* TaskGroup._abort of the term's group: a subject task raised, or the term
\* task itself was cancelled; the subject tasks still running are cancelled.
term_abort(t) ==
    /\ tpc[t] = "group"
    /\ tcancel[t] \/ \E w \in TermWorkers(t) : wpc[w] = "raised"
    /\ \E w \in TermWorkers(t) : wpc[w] \notin WorkerFinished /\ ~wcancel[w]
    /\ wcancel' = [w \in Workers |->
                     wcancel[w] \/ (w \in TermWorkers(t) /\ wpc[w] \notin WorkerFinished)]
    /\ UNCHANGED <<mainVars, termVars, wpc, wexc, watt, dpend, datt, subj_class_data,
                   wret, semaphore, openSessions, connector_closed, faulty, histVars>>
    /\ UNCHANGED <<codeVars, dataVars, restVars>>

\* The term's task group exits with an error: a subject task raised (the
\* group raises an ExceptionGroup, caught by except Exception), or the term
\* task was cancelled and no subject task raised.
term_group_error(t) ==
    /\ tpc[t] = "group"
    /\ \A w \in TermWorkers(t) : wpc[w] \in WorkerFinished
    /\ tcancel[t] \/ \E w \in TermWorkers(t) : wpc[w] = "raised"
    /\ tpc' = [tpc EXCEPT ![t] = "done"]
    /\ tret' = [tret EXCEPT ![t] =
                  IF \E w \in TermWorkers(t) : wpc[w] = "raised"
                  THEN (IF term_group_catches("ExceptionGroup") THEN "False" ELSE "raised")
                  ELSE "cancelled"]
    /\ UNCHANGED <<mainVars, tcancel, tatt, subjects, termFile, twrote, workVars, semaphore,
                   openSessions, connector_closed, faulty, histVars>>
    /\ UNCHANGED <<codeVars, dataVars, restVars>>

\* term_course_data in insertion order: one entry per listed subject, its
\* courses taken from the subject task's result.
term_course_data(t) ==
    [i \in DOMAIN subjects[t] |->
        [code |-> subjects[t][i], courses |-> wret[<<t, subjects[t][i]>>]]]

\* TaskGroup.__aexit__ of the term's group returns normally once every
\* subject task has returned.
subjects_returned_any(t) == \E w \in TermWorkers(t) : wpc[w] = "returned"
subjects_returned(t) == \A w \in TermWorkers(t) : wpc[w] = "returned"

\* The term's task group exits normally: results are gathered and the term
\* file is written (written = FALSE: mkdir, open or json.dump raised).
get_term_course_data_write(t, written) ==
    /\ tpc[t] = "group"
    /\ subjects_returned(t)
    /\ ~tcancel[t]
    /\ tpc' = [tpc EXCEPT ![t] = "done"]
    /\ termFile' = [termFile EXCEPT ![t] = IF written THEN <<term_course_data(t)>> ELSE @]
    /\ twrote' = [twrote EXCEPT ![t] = IF written THEN "ok" ELSE "failed"]
    /\ tret' = [tret EXCEPT ![t] = term_return(term_course_data(t), written)]
    /\ UNCHANGED <<mainVars, tcancel, tatt, subjects, workVars, semaphore,
                   openSessions, connector_closed, faulty, histVars>>
    /\ UNCHANGED <<codeVars, dataVars, restVars>>

(* ---- get_subj_course_data ---- *)

\* async with semaphore, then the session is opened and the first request
\* (reset_class_search) is about to be issued.
get_subj_course_data_acquire_unguarded(w) ==
    /\ wpc[w] = "acquire" /\ ~wcancel[w]
    /\ semaphore' = semaphore - 1
    /\ openSessions' = openSessions \cup {SubjSession(w)}
    /\ UNCHANGED connector_closed
    /\ wpc' = [wpc EXCEPT ![w] = "reset"]
    /\ UNCHANGED <<mainVars, termVars, wexc, wcancel, watt, dpend, datt,
                   subj_class_data, wret, faulty, histVars>>
    /\ UNCHANGED <<codeVars, dataVars, restVars>>
get_subj_course_data_acquire(w) ==
    /\ wpc[w] = "acquire" /\ ~wcancel[w]
    /\ semaphore > 0
    /\ semaphore' = semaphore - 1
    /\ openSessions' = openSessions \cup {SubjSession(w)}
    /\ UNCHANGED connector_closed
    /\ wpc' = [wpc EXCEPT ![w] = "reset"]
    /\ UNCHANGED <<mainVars, termVars, wexc, wcancel, watt, dpend, datt,
                   subj_class_data, wret, faulty, histVars>>
    /\ UNCHANGED <<codeVars, dataVars, restVars>>

\* ClientSession(connector=tcp_connector, timeout=timeout_obj) is given no
\* connector_owner: the session owns the connector it was given, which is
\* aiohttp's default, and closes it when it is closed itself.
connector_owner == TRUE

\* The worker leaves both async with blocks: the session is closed, and with
\* it a connector it owns, and the permit released; the task's locals are
\* gone.
SubjRelease_keeping_permit(w) ==
    /\ openSessions' = openSessions \ {SubjSession(w)}
    /\ connector_closed' = (connector_closed \/ connector_owner)
    /\ lastReq' = Closed(SubjSession(w))
    /\ semaphore' = semaphore
    /\ watt' = [watt EXCEPT ![w] = NoAttempt]
    /\ dpend' = [dpend EXCEPT ![w] = {}]
    /\ datt' = [datt EXCEPT ![w] = [d \in ClassIds \X HttpDetailKinds |-> NoAttempt]]
SubjRelease(w) ==
    /\ openSessions' = openSessions \ {SubjSession(w)}
    /\ connector_closed' = (connector_closed \/ connector_owner)
    /\ lastReq' = Closed(SubjSession(w))
    /\ semaphore' = semaphore + 1
    /\ watt' = [watt EXCEPT ![w] = NoAttempt]
    /\ dpend' = [dpend EXCEPT ![w] = {}]
    /\ datt' = [datt EXCEPT ![w] = [d \in ClassIds \X HttpDetailKinds |-> NoAttempt]]

\* An exception reaches the try block of get_subj_course_data: the except
\* clause returns {} for the exceptions it catches, any other propagates.
SubjExcept(w, exc) ==
    /\ SubjRelease(w)
    /\ wexc' = [wexc EXCEPT ![w] = exc]
    /\ wpc' = [wpc EXCEPT ![w] = IF subj_catches(exc) THEN "returned" ELSE "raised"]
    /\ wret' = [wret EXCEPT ![w] = {}]
    /\ subj_class_data' = [subj_class_data EXCEPT ![w] = {}]

\* The worker returns the sorted course map m.
SubjReturn(w, m) ==
    /\ SubjRelease(w)
    /\ wpc' = [wpc EXCEPT ![w] = "returned"]
    /\ wret' = [wret EXCEPT ![w] = m]
    /\ subj_class_data' = [subj_class_data EXCEPT ![w] = m]
    /\ UNCHANGED wexc

\* The worker goes on to position pc with att as the attempts of its
\* running fetch, after a GET attempt of kind k with outcome o.
SubjStep(w, pc, att, k, o) ==
    /\ wpc' = [wpc EXCEPT ![w] = pc]
    /\ watt' = [watt EXCEPT ![w] = att]
    /\ lastReq' = Request(SubjSession(w), "class_details", w[1], o)
    /\ UNCHANGED <<wexc, wret, subj_class_data, datt, semaphore, openSessions,
                   connector_closed>>

\* One GET attempt of reset_class_search.
reset_class_search(w, o) ==
    /\ wpc[w] = "reset" /\ ~wcancel[w]
    /\ o \in HttpOutcomes /\ Allowed(watt[w], o)
    /\ faulty' = Spend(watt[w], o)
    /\ sessionUse' = sessionUse \cup {<<SubjSession(w), w>>}
    /\ fetched' = Finished(Attempt(watt[w], o))
    /\ LET att == Attempt(watt[w], o) IN
       CASE retry_get(att.n, o) = "returned" ->
              SubjStep(w, "search", NoAttempt, "reset_search", o) /\ UNCHANGED dpend
         [] retry_get(att.n, o) = "retry" ->
              SubjStep(w, "reset", att, "reset_search", o) /\ UNCHANGED dpend
         [] OTHER ->
              SubjExcept(w, FetchError(att.n, o))
    /\ UNCHANGED <<mainVars, termVars, wcancel, searchPrev>>
    /\ UNCHANGED <<codeVars, dataVars, restVars>>

\* One GET attempt of class_search that fails.
class_search_fail(w, o) ==
    /\ wpc[w] = "search" /\ ~wcancel[w]
    /\ o \in FailOutcomes /\ Allowed(watt[w], o)
    /\ faulty' = Spend(watt[w], o)
    /\ searchPrev' = searchPrev \cup {[term |-> w[1], prev |-> lastReq[SubjSession(w)]]}
    /\ sessionUse' = sessionUse \cup {<<SubjSession(w), w>>}
    /\ fetched' = Finished(Attempt(watt[w], o))
    /\ LET att == Attempt(watt[w], o) IN
       IF retry_get(att.n, o) = "retry"
       THEN SubjStep(w, "search", att, "class_search", o) /\ UNCHANGED dpend
       ELSE SubjExcept(w, FetchError(att.n, o))
    /\ UNCHANGED <<mainVars, termVars, wcancel>>
    /\ UNCHANGED <<codeVars, dataVars, restVars>>

\* One GET attempt of class_search that succeeds with a body json.loads or
\* data["data"] cannot process.
class_search_malformed(w) ==
    /\ wpc[w] = "search" /\ ~wcancel[w]
    /\ MayCorrupt(watt[w])
    /\ faulty' = Corrupt(watt[w])
    /\ searchPrev' = searchPrev \cup {[term |-> w[1], prev |-> lastReq[SubjSession(w)]]}
    /\ sessionUse' = sessionUse \cup {<<SubjSession(w), w>>}
    /\ fetched' = Finished(Attempt(watt[w], "ok"))
    /\ SubjExcept(w, "JSONDecodeError")
    /\ UNCHANGED <<mainVars, termVars, wcancel>>
    /\ UNCHANGED <<codeVars, dataVars, restVars>>

\* One GET attempt of class_search that succeeds with n class entries (n = 0:
\* "data" is null or an empty list).  With no class the task group is empty
\* and the worker returns an empty map; otherwise one process_class_details
\* task is created per entry, and each creates its six detail tasks.
class_search_ok(w, n) ==
    /\ wpc[w] = "search" /\ ~wcancel[w]
    /\ n \in 0..MaxClasses
    /\ searchPrev' = searchPrev \cup {[term |-> w[1], prev |-> lastReq[SubjSession(w)]]}
    /\ sessionUse' = sessionUse \cup {<<SubjSession(w), w>>}
    /\ fetched' = Finished(Attempt(watt[w], "ok"))
    /\ IF n = 0
       THEN SubjReturn(w, {})
       ELSE /\ SubjStep(w, "details", NoAttempt, "class_search", "ok")
            /\ dpend' = [dpend EXCEPT ![w] = (1..n) \X HttpDetailKinds]
    /\ UNCHANGED <<mainVars, termVars, wcancel, faulty>>
    /\ UNCHANGED <<codeVars, dataVars, restVars>>

(* ---- process_class_details ---- *)

\* The running detail fetches of one class that are in the same attempt state
\* are interchangeable: nothing recorded depends on which of them the server
\* answers next, so the answer is given to the first of them in creation order.
FirstOfItsState(w, c, k) ==
    \A k2 \in HttpDetailKinds :
        (<<c, k2>> \in dpend[w] /\ datt[w][<<c, k2>>] = datt[w][<<c, k>>])
            => DetailIndex(k) <= DetailIndex(k2)

\* One GET attempt of the detail fetch k of class c.  A successful fetch
\* finishes its task; when it was the last of the class, the class entry is
\* appended to the course map, and when it was the last of the subject, the
\* worker sorts and returns.  A fetch out of attempts raises RetryError: the
\* class's task group and then the subject's raise an ExceptionGroup.
detail_fetch(w, c, k, o) ==
    /\ wpc[w] = "details" /\ ~wcancel[w]
    /\ <<c, k>> \in dpend[w]
    /\ FirstOfItsState(w, c, k)
    /\ o \in HttpOutcomes /\ Allowed(datt[w][<<c, k>>], o)
    /\ faulty' = Spend(datt[w][<<c, k>>], o)
    /\ sessionUse' = sessionUse \cup {<<SubjSession(w), w>>}
    /\ fetched' = Finished(Attempt(datt[w][<<c, k>>], o))
    /\ LET att == Attempt(datt[w][<<c, k>>], o)
           rest == dpend[w] \ {<<c, k>>}
           data == IF \E d \in rest : d[1] = c
                   THEN subj_class_data[w] ELSE subj_class_data[w] \cup {c}
       IN
       CASE retry_get(att.n, o) = "returned" /\ rest = {} ->
              SubjReturn(w, data)
         [] retry_get(att.n, o) = "returned" /\ rest # {} ->
              /\ dpend' = [dpend EXCEPT ![w] = rest]
              /\ datt' = [datt EXCEPT ![w][<<c, k>>] = NoAttempt]
              /\ subj_class_data' = [subj_class_data EXCEPT ![w] = data]
              /\ lastReq' = Request(SubjSession(w), "class_details", w[1], o)
              /\ UNCHANGED <<wpc, wexc, wret, watt, semaphore, openSessions, connector_closed>>
         [] retry_get(att.n, o) = "retry" ->
              /\ datt' = [datt EXCEPT ![w][<<c, k>>] = att]
              /\ lastReq' = Request(SubjSession(w), "class_details", w[1], o)
              /\ UNCHANGED <<wpc, wexc, wret, watt, dpend, subj_class_data,
                             semaphore, openSessions, connector_closed>>
         [] OTHER ->
              SubjExcept(w, "ExceptionGroup")
    /\ UNCHANGED <<mainVars, termVars, wcancel, searchPrev>>
    /\ UNCHANGED <<codeVars, dataVars, restVars>>

\* A cancelled subject task wakes with CancelledError: it was waiting for the
\* semaphore, or it held a permit and an open session and gives both back.
get_subj_course_data_cancelled(w) ==
    /\ wcancel[w]
    /\ wpc[w] \in {"acquire"} \cup WorkerHolding
    /\ IF wpc[w] \in WorkerHolding
       THEN SubjRelease(w)
       ELSE UNCHANGED <<semaphore, openSessions, connector_closed, lastReq, watt, dpend, datt>>
    /\ wpc' = [wpc EXCEPT ![w] = "cancelled"]
    /\ subj_class_data' = [subj_class_data EXCEPT ![w] = {}]
    /\ UNCHANGED <<mainVars, termVars, wexc, wcancel, wret,
                   faulty, searchPrev, sessionUse, fetched>>
    /\ UNCHANGED <<codeVars, dataVars, restVars>>

Next ==
    \/ main_start
    \/ main_abort
    \/ \E given \in SUBSET MapNames, failing \in MapNames \cup {"none"} :
          main_join(given, failing)
    \/ \E t \in Terms :
        \/ \E o \in FailOutcomes : get_term_subjects_fail(t, o)
        \/ get_term_subjects_malformed(t)
        \/ \E q \in SubjectLists : get_term_subjects_ok(t, q)
        \/ get_term_course_data_cancelled(t)
        \/ term_abort(t)
        \/ term_group_error(t)
        \/ \E written \in BOOLEAN : get_term_course_data_write(t, written)
    \/ \E w \in Workers :
        \/ get_subj_course_data_acquire(w)
        \/ \E o \in HttpOutcomes : reset_class_search(w, o)
        \/ \E o \in FailOutcomes : class_search_fail(w, o)
        \/ class_search_malformed(w)
        \/ \E n \in 0..MaxClasses : class_search_ok(w, n)
        \/ \E c \in ClassIds, k \in HttpDetailKinds, o \in HttpOutcomes :
              detail_fetch(w, c, k, o)
        \/ get_subj_course_data_cancelled(w)

Spec == Init /\ [][Next]_vars

\* The event loop runs every task that is ready, and every HTTP attempt
\* completes: a step that can be taken is taken.
SpecRuns == Spec /\ WF_vars(Next)

TypeOK ==
    /\ mapWrites \in [MapNames -> Nat]
    /\ num_terms_processed \in 0..NumTerms
    /\ semaphore \in 0..SessionCap
    /\ faulty \in 0..MaxFaultyFetches
    /\ openSessions \subseteq Sessions
    /\ connector_closed \in BOOLEAN

(* ---- strings ---- *)

\* A str is the sequence of its characters.
Whitespace == {" ", "\t"}
UpperLetters ==
    <<"A", "B", "C", "D", "E", "F", "G", "H", "I", "J", "K", "L", "M", "N", "O", "P",
      "Q", "R", "S", "T", "U", "V", "W", "X", "Y", "Z">>
LowerLetters ==
    <<"a", "b", "c", "d", "e", "f", "g", "h", "i", "j", "k", "l", "m", "n", "o", "p",
      "q", "r", "s", "t", "u", "v", "w", "x", "y", "z">>
DigitChars == <<"0", "1", "2", "3", "4", "5", "6", "7", "8", "9">>

IsUpper(c) == \E i \in DOMAIN UpperLetters : UpperLetters[i] = c
IsLower(c) == \E i \in DOMAIN LowerLetters : LowerLetters[i] = c
IsDigit(c) == \E i \in DOMAIN DigitChars : DigitChars[i] = c
LowerChar(c) ==
    IF IsUpper(c) THEN LowerLetters[CHOOSE i \in DOMAIN UpperLetters : UpperLetters[i] = c]
    ELSE c
UpperChar(c) ==
    IF IsLower(c) THEN UpperLetters[CHOOSE i \in DOMAIN LowerLetters : LowerLetters[i] = c]
    ELSE c
DigitValue(c) == (CHOOSE i \in DOMAIN DigitChars : DigitChars[i] = c) - 1

\* str.lower, str.upper, str.capitalize
Lower(s) == [i \in DOMAIN s |-> LowerChar(s[i])]
Upper(s) == [i \in DOMAIN s |-> UpperChar(s[i])]
Capitalize(s) == [i \in DOMAIN s |-> IF i = 1 THEN UpperChar(s[i]) ELSE LowerChar(s[i])]

\* str.strip
RECURSIVE LStrip(_)
LStrip(s) == IF s # <<>> /\ Head(s) \in Whitespace THEN LStrip(Tail(s)) ELSE s
RECURSIVE RStrip(_)
RStrip(s) ==
    IF s # <<>> /\ s[Len(s)] \in Whitespace THEN RStrip(SubSeq(s, 1, Len(s) - 1)) ELSE s
Strip(s) == RStrip(LStrip(s))

\* int(str): surrounding whitespace is ignored, an optional sign and then
\* decimal digits are read; anything else is a ValueError.
RECURSIVE ParseDigits(_)
ParseDigits(s) ==
    IF s = <<>> THEN 0
    ELSE 10 * ParseDigits(SubSeq(s, 1, Len(s) - 1)) + DigitValue(s[Len(s)])
AllDigits(s) == s # <<>> /\ \A i \in DOMAIN s : IsDigit(s[i])
int_of_str(s) ==
    LET t == Strip(s) IN
    IF AllDigits(t) THEN [ok |-> TRUE, val |-> ParseDigits(t)]
    ELSE IF t # <<>> /\ Head(t) = "-" /\ AllDigits(Tail(t))
         THEN [ok |-> TRUE, val |-> 0 - ParseDigits(Tail(t))]
    ELSE IF t # <<>> /\ Head(t) = "+" /\ AllDigits(Tail(t))
         THEN [ok |-> TRUE, val |-> ParseDigits(Tail(t))]
    ELSE [ok |-> FALSE, val |-> 0]

\* f"{n}" of an int
RECURSIVE FormatNat(_)
FormatNat(n) ==
    IF n < 10 THEN <<DigitChars[n + 1]>>
    ELSE FormatNat(n \div 10) \o <<DigitChars[(n % 10) + 1]>>
FormatInt(n) == IF n < 0 THEN <<"-">> \o FormatNat(0 - n) ELSE FormatNat(n)

(* ---- get_term_code ---- *)

\* season.lower().strip()
season_lower_unstripped(s) == Lower(s)
season_lower(s) == Strip(Lower(s))

\* int(year) inside the try block: an int is itself, a str is parsed.
year_int(y) == IF y.type = "int" THEN [ok |-> TRUE, val |-> y.int] ELSE int_of_str(y.str)

\* get_term_code(year, season); "" is the empty sequence.
get_term_code(y, s) ==
    IF y.type = "none" \/ s.type = "none" THEN <<>>
    ELSE IF s.type # "str" THEN <<>>
    ELSE IF ~year_int(y).ok THEN <<>>
    ELSE IF year_int(y).val < 1000 \/ year_int(y).val > 9999 THEN <<>>
    ELSE IF season_lower(s.str) = <<"f", "a", "l", "l">>
         THEN FormatInt(year_int(y).val) \o <<"0", "9">>
    ELSE IF season_lower(s.str) = <<"s", "u", "m", "m", "e", "r">>
         THEN FormatInt(year_int(y).val) \o <<"0", "5">>
    ELSE IF season_lower(s.str) = <<"s", "p", "r", "i", "n", "g">>
         THEN FormatInt(year_int(y).val) \o <<"0", "1">>
    ELSE <<>>

\* The arguments get_term_code is checked on.  A year is an int, a str or
\* None; `numeric` and `num` record the number it denotes, if any.
YearNumbers == {0 - 2023, 0, 999, 1000, 2023, 2024, 9999, 10000}
YearInputs ==
    {[type |-> "int", int |-> n, str |-> <<>>, numeric |-> TRUE, num |-> n] : n \in YearNumbers}
    \cup {[type |-> "str", int |-> 0, str |-> FormatInt(n), numeric |-> TRUE, num |-> n] :
             n \in YearNumbers}
    \cup {[type |-> "str", int |-> 0, str |-> w, numeric |-> FALSE, num |-> 0] :
             w \in {<<"a", "b", "c">>, <<"2", "0", "a", "3">>, <<>>}}
    \cup {[type |-> "none", int |-> 0, str |-> <<>>, numeric |-> FALSE, num |-> 0]}

\* A season is a str, None or a value of another type; a str is a word in
\* some casing with whitespace around it, and `word` records the word in
\* lower case.
SeasonWords ==
    {<<"f", "a", "l", "l">>, <<"s", "u", "m", "m", "e", "r">>,
     <<"s", "p", "r", "i", "n", "g">>, <<"w", "i", "n", "t", "e", "r">>,
     <<"f", "a", "l", " ", "l">>, <<"f", "a", "l">>, <<>>}
Pads == UNION {[1..n -> Whitespace] : n \in 0..MaxPad}
Casings(w) == {w, Upper(w), Capitalize(w)}
CasedWords == UNION {{<<w, c>> : c \in Casings(w)} : w \in SeasonWords}
SeasonInputs ==
    {[type |-> "str", str |-> q[2] \o q[1][2] \o q[3], word |-> q[1][1]] :
        q \in CasedWords \X Pads \X Pads}
    \cup {[type |-> "none", str |-> <<>>, word |-> <<>>],
          [type |-> "int", str |-> <<>>, word |-> <<>>]}

Pending == <<"pending">>

InitTermCode ==
    /\ EngineInit
    /\ DataIdle
    /\ RestIdle
    /\ year \in YearInputs
    /\ season \in SeasonInputs
    /\ term_code = Pending

\* The call returns.
get_term_code_call ==
    /\ term_code = Pending
    /\ term_code' = get_term_code(year, season)
    /\ UNCHANGED <<year, season, engineVars, dataVars, restVars>>

NextTermCode == get_term_code_call

SpecTermCode == InitTermCode /\ [][NextTermCode]_vars

(* ---- dicts, str.split, sorted ---- *)

\* d[k] = v
Put(m, k, v) == [x \in DOMAIN m \cup {k} |-> IF x = k THEN v ELSE m[x]]

Max(S) == CHOOSE x \in S : \A y \in S : y <= x
Min(S) == CHOOSE x \in S : \A y \in S : x <= y

\* str.split(): the maximal runs of characters that are not whitespace.
RECURSIVE Split(_)
Split(s) ==
    LET t == LStrip(s) IN
    IF t = <<>> THEN <<>>
    ELSE LET n == CHOOSE n \in 1..Len(t) :
                      /\ \A i \in 1..n : t[i] \notin Whitespace
                      /\ n = Len(t) \/ t[n + 1] \in Whitespace
         IN <<SubSeq(t, 1, n)>> \o Split(SubSeq(t, n + 1, Len(t)))

\* " ".join(tokens)
RECURSIVE Join(_)
Join(tokens) ==
    IF tokens = <<>> THEN <<>>
    ELSE IF Len(tokens) = 1 THEN tokens[1]
    ELSE tokens[1] \o <<" ">> \o Join(Tail(tokens))

\* s.endswith(suffix), s.split(c)[0]
EndsWith(s, suffix) ==
    Len(s) >= Len(suffix) /\ SubSeq(s, Len(s) - Len(suffix) + 1, Len(s)) = suffix
BeforeFirst(s, c) ==
    IF \E i \in DOMAIN s : s[i] = c
    THEN SubSeq(s, 1, Min({i \in DOMAIN s : s[i] = c}) - 1)
    ELSE s

\* a < b on two str of digits: the first differing character decides, a
\* proper prefix is smaller.
RECURSIVE StrLess(_, _)
StrLess(a, b) ==
    IF b = <<>> THEN FALSE
    ELSE IF a = <<>> THEN TRUE
    ELSE IF Head(a) = Head(b) THEN StrLess(Tail(a), Tail(b))
    ELSE DigitValue(Head(a)) < DigitValue(Head(b))

\* sorted(q, key=...) on a sequence of [key, val]: stable, ascending.
RECURSIVE Insert(_, _)
Insert(q, x) ==
    IF q = <<>> THEN <<x>>
    ELSE IF StrLess(x.key, Head(q).key) THEN <<x>> \o q
    ELSE <<Head(q)>> \o Insert(Tail(q), x)
RECURSIVE Sorted(_)
Sorted(q) ==
    IF q = <<>> THEN <<>>
    ELSE Insert(Sorted(SubSeq(q, 1, Len(q) - 1)), q[Len(q)])

(* ---- the class entries of a subject and their details ---- *)

\* An attribute string as get_class_attributes returns it; `wf`, `name` and
\* `code` record how it was built: "<name>  <code>", or some other text.
Attr(name, code) ==
    [text |-> name \o <<" ", " ">> \o code, wf |-> TRUE, name |-> name, code |-> code]
OtherText(text) == [text |-> text, wf |-> FALSE, name |-> <<>>, code |-> <<>>]
\* A restriction item as get_class_restrictions returns it: "<name> (<code>)",
\* or some other text.
Item(name, code) ==
    [text |-> name \o <<" ", "(">> \o code \o <<")">>, wf |-> TRUE,
     name |-> name, code |-> code]

\* The keys of the dict get_class_restrictions returns, in its order.
RestrictionKeyOrder == <<"major", "not_major", "special_approval">>

RpiSuffix == <<"@", "r", "p", "i", ".", "e", "d", "u">>

\* The class entries the server may answer with, each with the details its
\* six detail calls return.
Entry1 ==
    [crn |-> 1, courseNumber |-> <<"1", "0">>, sequenceNumber |-> <<"0", "2">>,
     attributes |-> <<Attr(<<"a", " ", "b">>, <<"X">>)>>,
     restrictions |-> [major |-> <<Item(<<"m">>, <<"M">>)>>, not_major |-> <<>>,
                       special_approval |-> <<>>],
     faculty |-> <<[displayName |-> "Ann", emailAddress |-> <<"a">> \o RpiSuffix]>>]
Entry2 ==
    [crn |-> 2, courseNumber |-> <<"1", "0">>, sequenceNumber |-> <<"0", "1">>,
     attributes |-> <<Attr(<<"c">>, <<"X">>), OtherText(<<"Y">>)>>,
     restrictions |-> [major |-> <<>>, not_major |-> <<Item(<<"n">>, <<"N">>)>>,
                       special_approval |-> <<OtherText(<<"f", "r", "e", "e">>)>>],
     faculty |-> <<[displayName |-> "Anne", emailAddress |-> <<"A">> \o RpiSuffix]>>]
Entry3 ==
    [crn |-> 3, courseNumber |-> <<"9">>, sequenceNumber |-> <<"0", "1">>,
     attributes |-> <<Attr(<<"c">>, <<"Z">>)>>,
     restrictions |-> [major |-> <<Item(<<"M">>, <<"K">>), Item(<<"q">>, <<"M">>)>>,
                       not_major |-> <<>>, special_approval |-> <<>>],
     faculty |-> <<[displayName |-> "Bob", emailAddress |-> <<"b", "@", "x">>]>>]
Catalogue == <<Entry1, Entry2, Entry3>>

\* What class_search may return: up to MaxEntries distinct entries, any order.
ClassLists ==
    {[i \in DOMAIN q |-> Catalogue[q[i]]] :
        q \in {r \in UNION {[1..n -> DOMAIN Catalogue] : n \in 0..MaxEntries} :
                  \A i, j \in DOMAIN r : i # j => r[i] # r[j]}}

\* What get_term_subjects may return for a term.
SubjectListings ==
    LET d1 == [code |-> <<"C", "S", "C", "I">>, description |-> "Computer Science"]
        d2 == [code |-> <<"C", "S", "C", "I">>, description |-> "Comp Sci"]
        d3 == [code |-> <<"M", "A", "T", "H">>, description |-> "Mathematics"]
    IN {<<>>, <<d1>>, <<d2, d3>>, <<d3, d1>>}

(* ---- the code-to-name maps ---- *)

\* The record of one upsert of value v under key k into the dict m, which
\* held `after` afterwards.
Upsert(name, m, k, v, logged, after) ==
    [map |-> name, conflict |-> (k \in DOMAIN m /\ m[k] # v), logged |-> logged,
     stored |-> (k \in DOMAIN after /\ after[k] = v)]

\* subject_code_name_map, for the subjects of one term in the server's order.
RECURSIVE subjects_update(_, _)
subjects_update(st, subjs) ==
    IF subjs = <<>> THEN st
    ELSE LET subject == Head(subjs)
             logged == /\ subject.code \in DOMAIN st.map
                       /\ st.map[subject.code] # subject.description
             after == Put(st.map, subject.code, subject.description)
         IN subjects_update(
                [map |-> after,
                 ups |-> st.ups \cup {Upsert("subjects", st.map, subject.code,
                                             subject.description, logged, after)}],
                Tail(subjs))

\* instructor_rcsid_name_map, for the faculty of one class entry.
RECURSIVE instructors_update(_, _)
instructors_update(st, faculty) ==
    IF faculty = <<>> THEN st
    ELSE LET instructor == Head(faculty)
             email_address == instructor.emailAddress
         IN IF EndsWith(email_address, RpiSuffix)
            THEN LET rcsid == Lower(BeforeFirst(email_address, "@"))
                     after == Put(st.map, rcsid, instructor.displayName)
                 IN instructors_update(
                        [map |-> after,
                         ups |-> st.ups \cup {Upsert("instructors", st.map, rcsid,
                                                     instructor.displayName, FALSE, after)}],
                        Tail(faculty))
            ELSE instructors_update(st, Tail(faculty))

\* attribute_code_name_map[attribute_code] = attribute_name
attribute_put_if_absent(m, k, v) == IF k \in DOMAIN m THEN m ELSE Put(m, k, v)
attribute_put(m, k, v) == Put(m, k, v)

\* attribute_code_name_map, for the attributes of one class.
RECURSIVE attributes_update(_, _)
attributes_update(st, attrs) ==
    IF attrs = <<>> THEN st
    ELSE LET attribute_split == Split(Head(attrs).text) IN
         IF Len(attribute_split) < 2 THEN attributes_update(st, Tail(attrs))
         ELSE LET attribute_code == Strip(attribute_split[Len(attribute_split)])
                  attribute_name ==
                      Strip(Join(SubSeq(attribute_split, 1, Len(attribute_split) - 1)))
                  logged == /\ attribute_code \in DOMAIN st.map
                            /\ st.map[attribute_code] # attribute_name
                  after == attribute_put(st.map, attribute_code, attribute_name)
              IN attributes_update(
                     [map |-> after,
                      ups |-> st.ups \cup {Upsert("attributes", st.map, attribute_code,
                                                  attribute_name, logged, after)}],
                     Tail(attrs))

\* restriction_type.lower().replace("not_", "")
restriction_base(key) == IF key = "not_major" THEN "major" ELSE key

\* re.match(r"(.*)\((.*)\)", s): the first group is greedy, so the "(" is
\* the last one that has a ")" after it, and the ")" is the last one.
restriction_match(s) ==
    LET opens == {i \in DOMAIN s : s[i] = "(" /\ \E j \in DOMAIN s : j > i /\ s[j] = ")"}
    IN IF opens = {} THEN [matched |-> FALSE, name |-> <<>>, code |-> <<>>]
       ELSE LET p == Max(opens)
                q == Max({j \in DOMAIN s : j > p /\ s[j] = ")"})
            IN [matched |-> TRUE,
                name |-> Strip(SubSeq(s, 1, p - 1)),
                code |-> Strip(SubSeq(s, p + 1, q - 1))]

\* restriction_code_name_map[restriction_type], for the items of one list.
\* The conflict test looks the name up among the codes, and reads the entry
\* of the code when the name is there: a KeyError when the code is not.
RECURSIVE restriction_items_update(_, _, _)
restriction_items_update(st, restriction_type, items) ==
    IF items = <<>> \/ st.raised THEN st
    ELSE LET restriction_match_ == restriction_match(Head(items).text)
             restriction_name == restriction_match_.name
             restriction_code == restriction_match_.code
             inner == st.map[restriction_type]
         IN IF ~restriction_match_.matched
            THEN restriction_items_update(st, restriction_type, Tail(items))
            ELSE IF restriction_name \in DOMAIN inner /\ restriction_code \notin DOMAIN inner
            THEN [st EXCEPT !.raised = TRUE]
            ELSE LET logged == /\ restriction_name \in DOMAIN inner
                               /\ inner[restriction_code] # restriction_name
                     after == Put(inner, restriction_code, restriction_name)
                 IN restriction_items_update(
                        [map |-> Put(st.map, restriction_type, after),
                         ups |-> st.ups \cup {Upsert("restrictions", inner, restriction_code,
                                                     restriction_name, logged, after)},
                         raised |-> FALSE],
                        restriction_type, Tail(items))

\* if restriction_type not in restriction_code_name_map:
\*     restriction_code_name_map[restriction_type] = {}
restriction_type_dict_reset(m, restriction_type) == Put(m, restriction_type, EmptyMap)
restriction_type_dict(m, restriction_type) ==
    IF restriction_type \in DOMAIN m THEN m ELSE Put(m, restriction_type, EmptyMap)

\* restriction_code_name_map, for the restrictions of one class: for each key
\* of restrictions_data, the list read is the one under the key with its
\* not_ prefix removed.
RECURSIVE restrictions_update(_, _, _)
restrictions_update(st, class_restrictions, keys) ==
    IF keys = <<>> \/ st.raised THEN st
    ELSE LET restriction_type == restriction_base(Head(keys))
             st1 == [st EXCEPT !.map = restriction_type_dict(st.map, restriction_type)]
         IN restrictions_update(
                restriction_items_update(st1, restriction_type,
                                         class_restrictions[restriction_type]),
                class_restrictions, Tail(keys))

\* The name the latest well-formed attribute string gives each code.
RECURSIVE LastNames(_, _)
LastNames(last, attrs) ==
    IF attrs = <<>> THEN last
    ELSE LastNames(IF Head(attrs).wf THEN Put(last, Head(attrs).code, Head(attrs).name)
                   ELSE last,
                   Tail(attrs))

(* ---- the course map of a subject ---- *)

\* course_data[course_num] = [] in the order the entries' tasks start.
RECURSIVE InitialCourses(_, _)
InitialCourses(cd, entries) ==
    IF entries = <<>> THEN cd
    ELSE InitialCourses(
             IF \E i \in DOMAIN cd : cd[i].num = Head(entries).courseNumber THEN cd
             ELSE Append(cd, [num |-> Head(entries).courseNumber, classes |-> <<>>]),
             Tail(entries))

\* course_data[course_num].append(class_entry)
AppendClass_replacing(cd, entry) ==
    [i \in DOMAIN cd |->
        IF cd[i].num = entry.courseNumber
        THEN [cd[i] EXCEPT !.classes =
                 <<[crn |-> entry.crn, sectionNumber |-> entry.sequenceNumber]>>]
        ELSE cd[i]]
AppendClass(cd, entry) ==
    [i \in DOMAIN cd |->
        IF cd[i].num = entry.courseNumber
        THEN [cd[i] EXCEPT !.classes =
                 Append(@, [crn |-> entry.crn, sectionNumber |-> entry.sequenceNumber])]
        ELSE cd[i]]

\* sorted(subj_class_data[course_num], key=lambda x: x["sectionNumber"])
sorted_sections_as_appended(classes) == classes
sorted_sections(classes) ==
    LET keyed == Sorted([i \in DOMAIN classes |->
                            [key |-> classes[i].sectionNumber, val |-> classes[i]]])
    IN [i \in DOMAIN keyed |-> keyed[i].val]

\* dict(sorted(subj_class_data.items()))
sorted_courses(cd) ==
    LET keyed == Sorted([i \in DOMAIN cd |-> [key |-> cd[i].num, val |-> cd[i]]])
    IN [i \in DOMAIN keyed |-> keyed[i].val]

\* The course map get_subj_course_data returns.
subj_result(cd) ==
    sorted_courses([i \in DOMAIN cd |->
                       [cd[i] EXCEPT !.classes = sorted_sections(cd[i].classes)]])

\* The TaskGroup of process_class_details exits normally when all of its
\* detail tasks have returned.
details_succeeded_but_one(n) == n >= Len(DetailOrder) - 1
details_succeeded(n) == n = Len(DetailOrder)

\* What main loads before it creates the tasks: no dictionary file exists
\* and the four dictionaries start empty, or each file holds entries of an
\* earlier run.
NoFiles ==
    [attribute |-> EmptyMap, instructor |-> EmptyMap, restriction |-> EmptyMap,
     subject |-> EmptyMap]
EarlierRun ==
    [attribute |-> [k \in {<<"X">>, <<"W">>} |-> <<"o", "l", "d">>],
     instructor |-> [k \in {<<"a">>, <<"z">>} |-> "Zed"],
     restriction |-> [k \in {"major", "not_major"} |->
                        IF k = "major" THEN [c \in {<<"K">>} |-> <<"k">>]
                        ELSE [c \in {<<"N">>} |-> <<"o", "l", "d">>]],
     subject |-> [k \in {<<"C", "S", "C", "I">>, <<"A", "R", "T", "S">>} |-> "Comp Sci"]]
LoadedMaps == {NoFiles, EarlierRun}

\* class_search has returned and one process_class_details task per entry
\* has started, which has entered its course in the course map.
InitSubject ==
    /\ EngineInit
    /\ CodeIdle
    /\ RestIdle
    /\ class_data \in ClassLists
    /\ cpc = [i \in DOMAIN class_data |-> "fetch"]
    /\ cdone = [i \in DOMAIN class_data |-> 0]
    /\ course_data = InitialCourses(<<>>, class_data)
    /\ spc = "group"
    /\ sret = <<>>
    /\ listed = 0
    /\ loaded_maps \in LoadedMaps
    /\ subject_code_name_map = loaded_maps.subject
    /\ instructor_rcsid_name_map = loaded_maps.instructor
    /\ attribute_code_name_map = loaded_maps.attribute
    /\ restriction_code_name_map = loaded_maps.restriction
    /\ map_files = <<>>
    /\ upserts = {}
    /\ attr_last = EmptyMap
    /\ restr_after = EmptyMap
    /\ updated = {}

\* A term driver has its subject list and enters it in subject_code_name_map.
get_term_course_data_subjects(q) ==
    /\ listed < NumTerms
    /\ map_files = <<>>
    /\ q \in SubjectListings
    /\ listed' = listed + 1
    /\ LET st == subjects_update([map |-> subject_code_name_map, ups |-> {}], q) IN
       /\ subject_code_name_map' = st.map
       /\ upserts' = upserts \cup st.ups
    /\ UNCHANGED <<class_data, cpc, cdone, course_data, spc, sret,
                   instructor_rcsid_name_map, attribute_code_name_map,
                   restriction_code_name_map, attr_last, restr_after, updated>>
    /\ UNCHANGED <<loaded_maps, map_files>>
    /\ UNCHANGED <<engineVars, codeVars, restVars>>

\* A detail task of entry i returns its data.
class_detail_returns(i) ==
    /\ spc = "group"
    /\ i \in DOMAIN class_data /\ cpc[i] = "fetch"
    /\ cdone' = [cdone EXCEPT ![i] = @ + 1]
    /\ cpc' = [cpc EXCEPT ![i] = IF details_succeeded(cdone[i] + 1) THEN "ready" ELSE "fetch"]
    /\ UNCHANGED <<class_data, course_data, spc, sret, listed, subject_code_name_map,
                   instructor_rcsid_name_map, attribute_code_name_map,
                   restriction_code_name_map, upserts, attr_last, restr_after, updated>>
    /\ UNCHANGED <<loaded_maps, map_files>>
    /\ UNCHANGED <<engineVars, codeVars, restVars>>

\* A detail task of entry i raises: the entry's task group cancels the other
\* detail tasks and process_class_details raises.
class_detail_raises(i) ==
    /\ spc = "group"
    /\ i \in DOMAIN class_data /\ cpc[i] = "fetch"
    /\ cpc' = [cpc EXCEPT ![i] = "failed"]
    /\ UNCHANGED <<class_data, cdone, course_data, spc, sret, listed, subject_code_name_map,
                   instructor_rcsid_name_map, attribute_code_name_map,
                   restriction_code_name_map, upserts, attr_last, restr_after, updated>>
    /\ UNCHANGED <<loaded_maps, map_files>>
    /\ UNCHANGED <<engineVars, codeVars, restVars>>

\* process_class_details of entry i after its task group: the instructors
\* are entered, the class entry is appended, the attributes and then the
\* restrictions are entered, without suspending.
process_class_details(i) ==
    /\ spc = "group"
    /\ i \in DOMAIN class_data /\ cpc[i] = "ready"
    /\ LET entry == class_data[i]
           ins == instructors_update([map |-> instructor_rcsid_name_map, ups |-> {}],
                                     entry.faculty)
           att == attributes_update([map |-> attribute_code_name_map, ups |-> {}],
                                    entry.attributes)
           rst == restrictions_update(
                      [map |-> restriction_code_name_map, ups |-> {}, raised |-> FALSE],
                      entry.restrictions, RestrictionKeyOrder)
       IN
       /\ instructor_rcsid_name_map' = ins.map
       /\ course_data' = AppendClass(course_data, entry)
       /\ attribute_code_name_map' = att.map
       /\ restriction_code_name_map' = rst.map
       /\ upserts' = upserts \cup ins.ups \cup att.ups \cup rst.ups
       /\ attr_last' = LastNames(attr_last, entry.attributes)
       /\ restr_after' = Put(restr_after, i, rst.map)
       /\ updated' = updated \cup {i}
       /\ cpc' = [cpc EXCEPT ![i] = IF rst.raised THEN "failed" ELSE "done"]
    /\ UNCHANGED <<class_data, cdone, spc, sret, listed, subject_code_name_map>>
    /\ UNCHANGED <<loaded_maps, map_files>>
    /\ UNCHANGED <<engineVars, codeVars, restVars>>

\* Every process_class_details task has returned: the worker sorts and returns.
get_subj_course_data_return ==
    /\ spc = "group"
    /\ \A i \in DOMAIN class_data : cpc[i] = "done"
    /\ spc' = "returned"
    /\ sret' = subj_result(course_data)
    /\ UNCHANGED <<class_data, cpc, cdone, course_data, listed, subject_code_name_map,
                   instructor_rcsid_name_map, attribute_code_name_map,
                   restriction_code_name_map, upserts, attr_last, restr_after, updated>>
    /\ UNCHANGED <<loaded_maps, map_files>>
    /\ UNCHANGED <<engineVars, codeVars, restVars>>

\* A process_class_details task has raised: the subject's task group cancels
\* the tasks still running and raises an ExceptionGroup.
get_subj_course_data_raise ==
    /\ spc = "group"
    /\ \E i \in DOMAIN class_data : cpc[i] = "failed"
    /\ cpc' = [i \in DOMAIN class_data |->
                 IF cpc[i] \in {"fetch", "ready"} THEN "cancelled" ELSE cpc[i]]
    /\ spc' = IF subj_catches("ExceptionGroup") THEN "returned" ELSE "raised"
    /\ UNCHANGED <<class_data, cdone, course_data, sret, listed, subject_code_name_map,
                   instructor_rcsid_name_map, attribute_code_name_map,
                   restriction_code_name_map, upserts, attr_last, restr_after, updated>>
    /\ UNCHANGED <<loaded_maps, map_files>>
    /\ UNCHANGED <<engineVars, codeVars, restVars>>

\* Python compares str by code point: digits before upper-case letters
\* before lower-case letters.
CodePoints == DigitChars \o UpperLetters \o LowerLetters
Ord(c) == CHOOSE n \in DOMAIN CodePoints : CodePoints[n] = c
RECURSIVE KeyLess(_, _)
KeyLess(a, b) ==
    IF b = <<>> THEN FALSE
    ELSE IF a = <<>> THEN TRUE
    ELSE IF Head(a) = Head(b) THEN KeyLess(Tail(a), Tail(b))
    ELSE Ord(Head(a)) < Ord(Head(b))
\* The restriction types in that order.
TypeLess(a, b) ==
    \E i, j \in DOMAIN RestrictionKeyOrder :
        i < j /\ RestrictionKeyOrder[i] = a /\ RestrictionKeyOrder[j] = b

\* json.dump(dict(sorted(m.items()))): the file lists the entries of m in
\* ascending key order.
sorted_items(m) ==
    LET n == Cardinality(DOMAIN m)
        keys == CHOOSE q \in [1..n -> DOMAIN m] :
                    \A i, j \in 1..n : i < j => KeyLess(q[i], q[j])
    IN  [i \in 1..n |-> [key |-> keys[i], val |-> m[keys[i]]]]

\* The same for the restriction dictionary, whose keys are the type names.
sorted_type_items(m) ==
    LET n == Cardinality(DOMAIN m)
        keys == CHOOSE q \in [1..n -> DOMAIN m] :
                    \A i, j \in 1..n : i < j => TypeLess(q[i], q[j])
    IN  [i \in 1..n |-> [key |-> keys[i], val |-> m[keys[i]]]]

\* The subject's term, and with it every term, is done without an exception:
\* main sorts the four dictionaries by key and writes their files.
main_write_code_maps ==
    /\ spc = "returned"
    /\ map_files = <<>>
    /\ map_files' = <<[attribute |-> sorted_items(attribute_code_name_map),
                       instructor |-> sorted_items(instructor_rcsid_name_map),
                       restriction |-> sorted_type_items(restriction_code_name_map),
                       subject |-> sorted_items(subject_code_name_map)]>>
    /\ UNCHANGED <<class_data, cpc, cdone, course_data, spc, sret, listed,
                   subject_code_name_map, instructor_rcsid_name_map,
                   attribute_code_name_map, restriction_code_name_map, upserts, attr_last,
                   restr_after, updated, loaded_maps>>
    /\ UNCHANGED <<engineVars, codeVars, restVars>>

NextSubject ==
    \/ \E q \in SubjectListings : get_term_course_data_subjects(q)
    \/ \E i \in 1..Len(Catalogue) :
          \/ class_detail_returns(i)
          \/ class_detail_raises(i)
          \/ process_class_details(i)
    \/ get_subj_course_data_return
    \/ get_subj_course_data_raise
    \/ main_write_code_maps

SpecSubject == InitSubject /\ [][NextSubject]_vars

(* ---- what the claims speak about ---- *)

Holders == {w \in Workers : wpc[w] \in WorkerHolding}

\* The retry_get calls that are running: the subject listing of a term, the
\* reset or search of a worker, the detail fetches of its classes.
RunningFetches ==
    {tatt[t] : t \in {u \in Terms : tpc[u] = "list"}}
    \cup {watt[w] : w \in {v \in Workers : wpc[v] \in {"reset", "search"}}}
    \cup UNION {{datt[w][d] : d \in dpend[w]} : w \in Workers}

C2_OneSessionPerWorker ==
    /\ \A u1, u2 \in sessionUse : u1[1] = u2[1] <=> u1[2] = u2[2]
    /\ \A u \in sessionUse : u[1] \notin {TermSession(t) : t \in Terms}
    /\ \A w1, w2 \in Holders : w1 # w2 => SubjSession(w1) # SubjSession(w2)
    /\ \A w \in Holders : SubjSession(w) \in openSessions

\* C2 witness: both subject workers of one term have issued requests.
C2_Witness ==
    \E u1, u2 \in sessionUse : u1[2] # u2[2] /\ u1[2][1] = u2[2][1]

\* C3: the workers that hold a permit, over all terms, are at most the cap.
C3_HoldersAtMostCap ==
    /\ Cardinality(Holders) <= SessionCap
    /\ semaphore = SessionCap - Cardinality(Holders)

\* C3 witness: the cap is exhausted by workers while a worker of another term
\* waits for a permit.
C3_Witness ==
    /\ Cardinality(Holders) = SessionCap
    /\ \E w \in Workers : wpc[w] = "acquire" /\ \E h \in Holders : h[1] # w[1]

\* C4: the sessions open at one time, transient subject-listing sessions
\* included, are at most the cap.
C4_OpenSessionsAtMostCap == Cardinality(openSessions) <= SessionCap

\* C5: get_subj_course_data never raises: a worker whose work met an
\* exception returns an empty course map.
C5_SubjNeverRaises ==
    \A w \in Workers :
        /\ wpc[w] # "raised"
        /\ wexc[w] # "none" => wpc[w] = "returned" /\ wret[w] = {}

\* C6: when the work of a subject fails, its sibling workers are not
\* cancelled, and the term file is written with the failed subject's courses
\* empty and the other subjects' data.
C6_SiblingsSurviveFailure ==
    \A t \in Terms : \A w \in TermWorkers(t) :
        wexc[w] # "none" =>
            /\ \A w2 \in TermWorkers(t) : ~wcancel[w2] /\ wpc[w2] # "cancelled"
            /\ (tpc[t] = "done" /\ tret[t] # "cancelled") =>
                  /\ twrote[t] # "none"
                  /\ twrote[t] = "ok" =>
                        \A i \in DOMAIN termFile[t][1] :
                            termFile[t][1][i].courses =
                                IF termFile[t][1][i].code = w[2] THEN {}
                                ELSE wret[<<t, termFile[t][1][i].code>>]

\* C7: a fetch issues at most 3 attempts; it returns on its first successful
\* attempt and not otherwise, and it fails only on a third failed attempt.
C7_AtMostThreeAttempts ==
    /\ \A a \in RunningFetches : a.n < MaxAttempts /\ a.last # "ok"
    /\ \A f \in fetched :
        /\ f.n \in 1..MaxAttempts
        /\ f.result = "returned" <=> f.last = "ok"
        /\ f.result # "returned" => f.result = "RetryError" /\ f.n = MaxAttempts

\* C7 witness: a fetch raised after its third failed attempt, and another
\* returned after failed attempts.
C7_Witness ==
    \E f \in fetched : f.n = MaxAttempts /\ f.result = "RetryError"

\* C8 as stated: an attempt that receives a 4xx ends the fetch with a raise
\* at once, it is not retried.
C8_4xxRaisesImmediately ==
    /\ \A a \in RunningFetches : a.last # "http4xx"
    /\ \A f \in fetched : f.last = "http4xx" => f.n = 1 /\ f.result # "returned"

\* C8 as amended: a 4xx is retried like every other ClientError; a fetch
\* ends on a 4xx only when it came on the third attempt, with RetryError.
C8_4xxRetried ==
    /\ \A f \in fetched :
          f.last = "http4xx" => f.n = MaxAttempts /\ f.result = "RetryError"
    /\ \A a \in RunningFetches : a.last = "http4xx" => a.n \in 1..(MaxAttempts - 1)

\* C8 witness: a fetch whose first attempt received a 4xx is still running,
\* its next attempt pending.
C8_Witness ==
    \E a \in RunningFetches : a.n = 1 /\ a.last = "http4xx"

\* C9 as stated: the term driver returns success exactly when some subject
\* yielded course data.
C9_SuccessIffSomeData ==
    \A t \in Terms :
        tret[t] \in {"True", "False"} =>
            (tret[t] = "True" <=> \E w \in TermWorkers(t) : wret[w] # {})

\* C9 as amended: the term driver returns success exactly when the term
\* file was written, which needs a non-empty subject list and every subject
\* worker returned; whether any course map is non-empty plays no part.
C9_SuccessIffWritten ==
    \A t \in Terms :
        /\ tret[t] \in {"True", "False"} => (tret[t] = "True" <=> twrote[t] = "ok")
        /\ twrote[t] # "none" =>
              /\ Len(subjects[t]) > 0
              /\ \A w \in TermWorkers(t) : wpc[w] = "returned"
        /\ (tpc[t] = "done" /\ Len(subjects[t]) = 0) => tret[t] # "True"

\* C9 witness: a term driver returned success although every subject worker
\* returned an empty course map.
C9_Witness ==
    \E t \in Terms :
        /\ tret[t] = "True"
        /\ \A w \in TermWorkers(t) : wpc[w] = "returned" /\ wret[w] = {}

\* C10: get_term_course_data never raises to main, and no failure inside it
\* stops the other terms.
C10_TermNeverRaises ==
    \A t \in Terms : tret[t] # "raised" /\ ~tcancel[t]

\* C11: when a term driver task raises, main's task group cancels every
\* sibling term task that is still running and main returns failure:
\* cancellation is requested only because a term raised, a cancelled term
\* never goes on to write its file or return success, and main, which joins
\* only when every term task is done, then returns False and writes no
\* code-map file.
C11_RaiseCancelsSiblings ==
    /\ \A u \in Terms :
          /\ tcancel[u] => \E t \in Terms \ {u} : tret[t] = "raised"
          /\ tcancel[u] => tret[u] \in {"none", "cancelled", "False"}
          /\ (tcancel[u] /\ tret[u] = "False") =>
                (twrote[u] = "none" /\ \E w \in TermWorkers(u) : wpc[w] = "raised")
          /\ tret[u] = "cancelled" => tcancel[u]
    /\ (mpc = "done" /\ \E t \in Terms : tret[t] = "raised") =>
          /\ mret = "False"
          /\ \A u \in Terms : tret[u] \in TermFinished
          /\ \A m \in MapNames : mapWrites[m] = 0

\* C11 witness: main returned after a term task raised and its sibling,
\* still running at that time, was cancelled.
C11_Witness ==
    /\ mpc = "done"
    /\ \E t, u \in Terms : tret[t] = "raised" /\ tret[u] = "cancelled"

\* C13: in every written term file the subject keys are in ascending
\* subject-code order.
C13_TermFileSubjectsAscending ==
    \A t \in Terms :
        termFile[t] # <<>> =>
            \A i, j \in DOMAIN termFile[t][1] :
                i < j => termFile[t][1][i].code < termFile[t][1][j].code

\* C18: each code-map file is written at most once in a run, and only
\* after every term driver task has finished, when no subject worker holds a
\* permit, waits for one, or has detail fetches running.
C18_MapsWrittenOnceAtEnd ==
    \A m \in MapNames :
        /\ mapWrites[m] <= 1
        /\ mapWrites[m] > 0 =>
              /\ mpc = "done"
              /\ \A t \in Terms : tret[t] \in TermFinished /\ tpc[t] = "done"
              /\ \A w \in Workers : wpc[w] \in {"new"} \cup WorkerFinished
              /\ \A w \in Workers : dpend[w] = {}

\* C18 witness: main wrote code-map files after terms that ran subject
\* workers.
C18_Witness ==
    /\ \E m \in MapNames : mapWrites[m] = 1
    /\ \E w \in Workers : wpc[w] = "returned"

\* C19: the file of a term is written at most once (once its write has been
\* attempted, neither the file nor the write's outcome changes again), a
\* write happens only when every subject worker of the term has finished,
\* and a step writes the file of one term only.
C19_TermFileWrittenOnce ==
    [][\A t \in Terms :
          /\ twrote[t] # "none" => (twrote'[t] = twrote[t] /\ termFile'[t] = termFile[t])
          /\ (twrote'[t] # twrote[t] \/ termFile'[t] # termFile[t]) =>
                /\ \A w \in TermWorkers(t) : wpc[w] \in WorkerFinished
                /\ \A u \in Terms \ {t} :
                      twrote'[u] = twrote[u] /\ termFile'[u] = termFile[u]]_vars

\* C19 witness: the file of a term with two subject workers was written
\* while a worker of another term was in flight.
C19_Witness ==
    \E t \in Terms :
        /\ twrote[t] = "ok"
        /\ Cardinality(TermWorkers(t)) = 2
        /\ \E w \in Holders : w[1] # t

\* The season words get_term_code knows and the month each stands for.
KnownSeasons ==
    {<<"s", "p", "r", "i", "n", "g">>, <<"s", "u", "m", "m", "e", "r">>, <<"f", "a", "l", "l">>}
SeasonMonth(w) ==
    CASE w = <<"s", "p", "r", "i", "n", "g">> -> <<"0", "1">>
      [] w = <<"s", "u", "m", "m", "e", "r">> -> <<"0", "5">>
      [] w = <<"f", "a", "l", "l">> -> <<"0", "9">>

\* C20: get_term_code returns the 6-character string made of the year and
\* 01 for spring, 05 for summer, 09 for fall when the year is a number from
\* 1000 to 9999 and the season, case and surrounding whitespace ignored, is
\* one of the three; for every other input it returns the empty string.
\* (2023, "Fall") gives "202309" and (2024, " spring ") gives "202401".
C20_TermCode ==
    term_code # Pending =>
        IF /\ year.numeric /\ year.num >= 1000 /\ year.num <= 9999
           /\ season.type = "str" /\ season.word \in KnownSeasons
        THEN /\ Len(term_code) = 6
             /\ SubSeq(term_code, 1, 4) = FormatInt(year.num)
             /\ SubSeq(term_code, 5, 6) = SeasonMonth(season.word)
             /\ (year.num = 2023 /\ season.word = <<"f", "a", "l", "l">>) =>
                   term_code = <<"2", "0", "2", "3", "0", "9">>
             /\ (year.num = 2024 /\ season.word = <<"s", "p", "r", "i", "n", "g">>) =>
                   term_code = <<"2", "0", "2", "4", "0", "1">>
        ELSE term_code = <<>>

\* C20 witness: the call with the int 2024 and " Spring " returned "202401".
C20_Witness ==
    /\ year.type = "int" /\ year.int = 2024
    /\ season.str = <<" ", "S", "p", "r", "i", "n", "g", " ">>
    /\ term_code = <<"2", "0", "2", "4", "0", "1">>

\* The entries whose class record is in the course map.
Appended ==
    {i \in DOMAIN class_data :
        \E k \in DOMAIN course_data : \E j \in DOMAIN course_data[k].classes :
            course_data[k].classes[j].crn = class_data[i].crn}

\* C12: in the course map a subject worker returns, the sections of every
\* course are in ascending sectionNumber order and the course numbers are in
\* ascending key order (both are str, compared as Python compares str), and
\* the map holds the class records that were appended, whatever the order
\* in which the entries' tasks finished.
C12_ReturnedMapSorted ==
    spc = "returned" =>
        /\ \A i, j \in DOMAIN sret : i < j => StrLess(sret[i].num, sret[j].num)
        /\ \A i \in DOMAIN sret : \A a, b \in DOMAIN sret[i].classes :
              a < b => ~StrLess(sret[i].classes[b].sectionNumber,
                                sret[i].classes[a].sectionNumber)
        /\ \A k \in DOMAIN course_data : \E i \in DOMAIN sret :
              /\ sret[i].num = course_data[k].num
              /\ {sret[i].classes[a] : a \in DOMAIN sret[i].classes}
                   = {course_data[k].classes[a] : a \in DOMAIN course_data[k].classes}
              /\ Len(sret[i].classes) = Len(course_data[k].classes)
        /\ Len(sret) = Len(course_data)

\* C12 witness: the worker returned a map one of whose courses had its
\* sections appended in descending order.
C12_Witness ==
    /\ spc = "returned"
    /\ \E k \in DOMAIN course_data : \E a, b \in DOMAIN course_data[k].classes :
          a < b /\ StrLess(course_data[k].classes[b].sectionNumber,
                           course_data[k].classes[a].sectionNumber)

\* C14: a class record is appended, and the instructor, attribute and
\* restriction updates of the class are applied, only when all six detail
\* calls of the class have returned; a class whose task ran to its end has its
\* record appended; when a detail call of a class fails, no record of the
\* class is appended, none of its updates is applied, and the subject worker
\* does not return normally.
C14_AppendOnlyAfterAllDetails ==
    /\ \A i \in DOMAIN class_data :
          /\ i \in Appended => cdone[i] = Len(DetailOrder)
          /\ i \in updated => cdone[i] = Len(DetailOrder)
          /\ cpc[i] = "done" => i \in Appended /\ i \in updated
          /\ cdone[i] < Len(DetailOrder) => i \notin Appended /\ i \notin updated
          /\ (cpc[i] = "failed" /\ cdone[i] < Len(DetailOrder)) => spc # "returned"
    /\ \A i \in DOMAIN restr_after : i \in updated
    /\ updated = {} =>
          /\ instructor_rcsid_name_map = loaded_maps.instructor
          /\ attribute_code_name_map = loaded_maps.attribute
          /\ restriction_code_name_map = loaded_maps.restriction

\* C14 witness: one class had its record appended after its six detail
\* calls, a detail call of another failed, and the subject worker raised.
C14_Witness ==
    /\ spc = "raised"
    /\ \E i, j \in DOMAIN class_data :
          /\ cpc[i] = "done" /\ i \in Appended
          /\ cpc[j] = "failed" /\ cdone[j] < Len(DetailOrder) /\ cdone[j] > 0

C16_ConflictsLogged ==
    \A u \in upserts : u.stored /\ (u.conflict <=> u.logged)

\* C17: after a class is processed, every restriction item "<name> (<code>)"
\* of the class, under a type or its not_ variant, is in
\* restriction_code_name_map under the type, the not_ prefix removed.
C17_RestrictionItemsRecorded ==
    \A i \in DOMAIN restr_after :
        \A key \in DOMAIN class_data[i].restrictions :
            \A n \in DOMAIN class_data[i].restrictions[key] :
                LET item == class_data[i].restrictions[key][n]
                    type == restriction_base(key)
                IN item.wf =>
                     /\ type \in DOMAIN restr_after[i]
                     /\ item.code \in DOMAIN restr_after[i][type]
                     /\ restr_after[i][type][item.code] = item.name

(* ---- C21 ---- *)

\* C21: the terms_processed count of the final summary equals the number of
\* term drivers launched in the run that returned success.
C21_TermsProcessedCountsSuccesses ==
    (mpc = "done" /\ mret = "True") =>
        num_terms_processed = Cardinality({t \in Terms : tret[t] = "True"})

(* ---- the command-line program (main.py) ---- *)

\* The environment variables the program reads with os.getenv.
EnvNames ==
    {"SCRAPER_LOGS_DIR", "SCRAPER_RAW_OUTPUT_DATA_DIR",
     "SCRAPER_PROCESSED_OUTPUT_DATA_DIR", "SCRAPER_CODE_MAPS_DIR",
     "ATTRIBUTE_CODE_NAME_MAP_FILENAME", "INSTRUCTOR_RCSID_NAME_MAP_FILENAME",
     "RESTRICTION_CODE_NAME_MAP_FILENAME", "SUBJECT_CODE_NAME_MAP_FILENAME"}
Modes == {"both", "scrape_only", "postprocess_only"}
StepOutcomes == {"True", "False", "raised"}

\* The program has been started with some command line and environment.
InitCli ==
    /\ EngineInit /\ CodeIdle /\ DataIdle /\ LoopInit /\ ParserIdle /\ PostIdle /\ DetailIdle
    /\ cli_pc = "config"
    /\ exit_code = <<>>
    /\ has_parent \in BOOLEAN
    /\ dotenv \in BOOLEAN
    /\ environ \in SUBSET EnvNames
    /\ logs_ok \in BOOLEAN
    /\ args \in Modes
    /\ scrape_ret = "none"
    /\ post_ret = "none"

\* The program ends: sys.exit(code), an exception nobody catches (the
\* interpreter then exits with 1) or the end of the script (0).
cli_exit(code) ==
    /\ cli_pc' = "exited"
    /\ exit_code' = <<code>>

\* Is the configuration complete: a parent directory, a loaded .env file and
\* every path variable set (Path / None raises the TypeError that is caught).
config_complete == has_parent /\ dotenv /\ environ = EnvNames

\* Lines 116-157: the three configuration checks, each ending in
\* sys.exit(1), then logging_init.
cli_configure ==
    /\ cli_pc = "config"
    /\ IF ~config_complete \/ ~logs_ok
          THEN cli_exit(1)
          ELSE cli_pc' = "scrape" /\ UNCHANGED exit_code
    /\ UNCHANGED <<has_parent, dotenv, environ, logs_ok, args, scrape_ret, post_ret>>
    /\ UNCHANGED <<engineVars, codeVars, dataVars, loopVars, parserVars, postVars,
                   detailVars>>

\* What the program does with the value asyncio.run(sis_scraper.main(...))
\* returns: does it go on to the next step?
scrape_continues(r) == r # "raised"

\* Lines 159-170: the scrape step, unless --postprocess-only was given.
cli_scrape(r) ==
    /\ cli_pc = "scrape"
    /\ r \in StepOutcomes
    /\ IF args = "postprocess_only"
          THEN cli_pc' = "postprocess" /\ UNCHANGED <<exit_code, scrape_ret>>
          ELSE /\ scrape_ret' = r
               /\ IF scrape_continues(r)
                     THEN cli_pc' = "postprocess" /\ UNCHANGED exit_code
                     ELSE cli_exit(1)
    /\ UNCHANGED <<has_parent, dotenv, environ, logs_ok, args, post_ret>>
    /\ UNCHANGED <<engineVars, codeVars, dataVars, loopVars, parserVars, postVars,
                   detailVars>>

\* Lines 172-180: the postprocess step, unless --scrape-only was given, and
\* the end of the script.
cli_postprocess(r) ==
    /\ cli_pc = "postprocess"
    /\ r \in StepOutcomes
    /\ IF args = "scrape_only"
          THEN cli_exit(0) /\ UNCHANGED post_ret
          ELSE /\ post_ret' = r
               /\ cli_exit(IF r = "raised" THEN 1 ELSE 0)
    /\ UNCHANGED <<has_parent, dotenv, environ, logs_ok, args, scrape_ret>>
    /\ UNCHANGED <<engineVars, codeVars, dataVars, loopVars, parserVars, postVars,
                   detailVars>>

NextCli ==
    \/ cli_configure
    \/ \E r \in StepOutcomes : cli_scrape(r)
    \/ \E r \in StepOutcomes : cli_postprocess(r)

SpecCli == InitCli /\ [][NextCli]_vars

(* ---- C22 ---- *)

\* C22: the program exits with code 1 when required configuration is missing
\* or when the scrape step fails fatally (sis_scraper.main returns failure),
\* and with code 0 on success.
C22_ExitCode ==
    cli_pc = "exited" =>
        /\ ~config_complete => exit_code = <<1>>
        /\ scrape_ret = "False" => exit_code = <<1>>
        /\ (config_complete /\ logs_ok /\ scrape_ret \in {"none", "True"}
              /\ post_ret \in {"none", "True"}) => exit_code = <<0>>

(* ---- the event loop and the upserts ---- *)

\* asyncio runs one task at a time and leaves it only where it suspends: at
\* an await, an async with or its return.

InitLoop ==
    EngineInit /\ CodeIdle /\ DataIdle /\ CliIdle /\ LoopInit /\ ParserIdle /\ PostIdle /\ DetailIdle

\* A task is created and runs to its first suspension: the task group of
\* the detail fetches (aggregator) or the subject-list request (term driver).
task_created(x, kind) ==
    /\ upc[x].at = "new"
    /\ loop_task = 0
    /\ upc' = [upc EXCEPT ![x] = [at |-> "await", left |-> 0]]
    /\ ukind' = [ukind EXCEPT ![x] = kind]
    /\ UNCHANGED <<loop_task, useen, umaps, torn>>
    /\ UNCHANGED <<engineVars, codeVars, dataVars, cliVars, parserVars, postVars,
                   detailVars>>

\* The awaited result is there and the loop resumes the task, which has n
\* items (attributes and restrictions of the class, subjects of the term)
\* to upsert.
task_resumed(x, n) ==
    /\ upc[x].at = "await"
    /\ loop_task = 0
    /\ loop_task' = x
    /\ upc' = [upc EXCEPT ![x] = [at |-> "check", left |-> n]]
    /\ UNCHANGED <<ukind, useen, umaps, torn>>
    /\ UNCHANGED <<engineVars, codeVars, dataVars, cliVars, parserVars, postVars,
                   detailVars>>

\* Does the task suspend between an upsert's conflict check and its
\* assignment?  The if and the assignment that follows it hold no await.
await_between_check_and_set_present == TRUE
await_between_check_and_set == FALSE

\* The conflict check of an upsert: `code in map and map[code] != name`.
upsert_check(x, m, v) ==
    /\ upc[x].at = "check"
    /\ loop_task = x
    /\ m \in CheckedMaps(ukind[x])
    /\ useen' = [useen EXCEPT ![x] = [map |-> m, val |-> v, seen |-> umaps[m]]]
    /\ upc' = [upc EXCEPT ![x].at = "set"]
    /\ loop_task' = IF await_between_check_and_set THEN 0 ELSE x
    /\ UNCHANGED <<ukind, umaps, torn>>
    /\ UNCHANGED <<engineVars, codeVars, dataVars, cliVars, parserVars, postVars,
                   detailVars>>

\* The assignment of an upsert: `map[code] = name`; after the last item the
\* task runs on to its next suspension.
upsert_set(x) ==
    /\ upc[x].at = "set"
    /\ loop_task = x \/ (await_between_check_and_set /\ loop_task = 0)
    /\ umaps' = [umaps EXCEPT ![useen[x].map] = <<[val |-> useen[x].val, by |-> x]>>]
    /\ torn' = (torn \/ umaps[useen[x].map] # useen[x].seen)
    /\ IF upc[x].left > 1
          THEN /\ upc' = [upc EXCEPT ![x] = [at |-> "check", left |-> @.left - 1]]
               /\ loop_task' = x
          ELSE /\ upc' = [upc EXCEPT ![x] = [at |-> "done", left |-> 0]]
               /\ loop_task' = 0
    /\ UNCHANGED <<ukind, useen>>
    /\ UNCHANGED <<engineVars, codeVars, dataVars, cliVars, parserVars, postVars,
                   detailVars>>

NextLoop ==
    \/ \E x \in Tasks, kind \in TaskKinds : task_created(x, kind)
    \/ \E x \in Tasks, n \in 1..MaxItems : task_resumed(x, n)
    \/ \E x \in Tasks, m \in MapNames, v \in Vals : upsert_check(x, m, v)
    \/ \E x \in Tasks : upsert_set(x)

SpecLoop == InitLoop /\ [][NextLoop]_vars

(* ---- C28 ---- *)

\* C28: under every interleaving of the aggregators and term drivers, no
\* upsert compares against an entry that another task replaces before the
\* upsert's own write: check and set run without a suspension between them.
C28_CheckThenSetAtomic ==
    /\ ~torn
    /\ \A x \in Tasks : upc[x].at = "set" =>
          loop_task = x /\ umaps[useen[x].map] = useen[x].seen

\* Two tasks ran concurrently and one of them upserted over the entry the
\* other had stored, with a different value.
C28_Witness ==
    \E x \in Tasks :
        /\ upc[x].at = "done"
        /\ useen[x].seen # <<>>
        /\ useen[x].seen[1].by # x
        /\ useen[x].seen[1].val # useen[x].val
        /\ ~torn

(* ---- get_class_restrictions: the span walk ---- *)

\* A string is a sequence of symbols: a word, or a single character where
\* the parser looks at characters (whitespace, parentheses, comma, colon).

\* _RESTRICTION_TYPE_MAP in insertion order.
FieldsOfStudy == <<"Fields of Study ", "(", "Major, Minor or Concentration", ")">>
RESTRICTION_TYPE_MAP ==
    << [plural |-> <<"Majors">>, base |-> "major"],
       [plural |-> FieldsOfStudy, base |-> "major"],
       [plural |-> <<"Minors">>, base |-> "minor"],
       [plural |-> <<"Levels">>, base |-> "level"],
       [plural |-> <<"Classes">>, base |-> "classification"],
       [plural |-> <<"Degrees">>, base |-> "degree"],
       [plural |-> <<"Programs">>, base |-> "degree"],
       [plural |-> <<"Departments">>, base |-> "department"],
       [plural |-> <<"Campuses">>, base |-> "campus"],
       [plural |-> <<"Colleges">>, base |-> "college"],
       [plural |-> <<"Special Approvals">>, base |-> "special_approval"] >>

\* The keys of restrictions_data: every base and, but for special_approval,
\* its "not_" form; a key is the pair of its prefix and its base.
bases == {RESTRICTION_TYPE_MAP[n].base : n \in DOMAIN RESTRICTION_TYPE_MAP}
SpecialApproval == <<"", "special_approval">>
restrictions_keys ==
    {<<"", b>> : b \in bases} \cup {<<"not_", b>> : b \in bases \ {"special_approval"}}
empty_restrictions_data == [k \in restrictions_keys |-> <<>>]

StartsWith(s, prefix) ==
    Len(s) >= Len(prefix) /\ SubSeq(s, 1, Len(prefix)) = prefix

\* restriction_header_pattern, matched at the start of s: the indices of the
\* map entries whose header s starts with, under "Must" or "Cannot".
header_text(must_or_cannot, plural) ==
    <<must_or_cannot, " be enrolled in one of the following ">> \o plural \o <<":">>
header_groups(s) ==
    {g \in {"Must", "Cannot"} \X DOMAIN RESTRICTION_TYPE_MAP :
        StartsWith(s, header_text(g[1], RESTRICTION_TYPE_MAP[g[2]].plural))}
\* special_approvals_pattern, matched at the start of s.
special_approvals_match(s) == StartsWith(s, <<"Special Approvals", ":">>)
is_header(s) == header_groups(s) # {} \/ special_approvals_match(s)

\* The key a header selects: the first alternative of the pattern that
\* matches, "not_" put before its base under "Cannot".
header_key(s) ==
    IF header_groups(s) = {} THEN SpecialApproval
    ELSE LET g == CHOOSE h \in header_groups(s) :
                      \A k \in header_groups(s) : h[2] <= k[2]
         IN  <<IF g[1] = "Cannot" THEN "not_" ELSE "", RESTRICTION_TYPE_MAP[g[2]].base>>

\* re.match(r".*\(.*\)", s): an opening parenthesis with a closing one
\* after it.
closed_parentheses(s) ==
    \E a, b \in DOMAIN s : a < b /\ s[a] = "(" /\ s[b] = ")"

\* A span: its .string, or none when the span has no single string.
NoneSpan == [none |-> TRUE, string |-> <<>>]
Span(str) == [none |-> FALSE, string |-> str]

MajorsHeader == header_text("Must", <<"Majors">>)
NotMinorsHeader == header_text("Cannot", <<"Minors">>)
FieldsHeader == header_text("Must", FieldsOfStudy)
SpecialHeader == <<"Special Approvals", ":">>
NotSpecialHeader == header_text("Cannot", <<"Special Approvals">>)
Communication == <<"Communication">>
Media == <<"Media">>
AndDesign == <<" ", "&", " ", "Design", " ", "(", "COMD", ")">>
Architecture == <<"Architecture", " ", "(", "ARCH", ")", " ">>
Blank == <<" ">>

HeaderSpans ==
    {Span(MajorsHeader), Span(NotMinorsHeader), Span(FieldsHeader), Span(SpecialHeader),
     Span(NotSpecialHeader)}
PieceSpans ==
    {Span(Communication), Span(Media), Span(AndDesign), Span(Architecture), Span(Blank)}
SpanCatalogue == HeaderSpans \cup PieceSpans \cup {NoneSpan}
SpanLists == UNION {[1..n -> SpanCatalogue] : n \in 0..MaxSpans}

\* The section's spans have been collected; the walk starts.
InitParser ==
    /\ EngineInit /\ CodeIdle /\ DataIdle /\ CliIdle /\ LoopInit /\ PostIdle /\ DetailIdle
    /\ restrictions_content \in SpanLists
    /\ span_i = 1
    /\ ploop = "outer"
    /\ restriction_list = NoKey
    /\ next_content_string = <<>>
    /\ restrictions_data = empty_restrictions_data
    /\ examined = [n \in DOMAIN restrictions_content |-> 0]

\* "i += 1".
next_index_unchanged(i) == i
next_index(i) == i + 1

\* One iteration of the outer while loop: a span without string or without
\* header is passed over; a header selects the list, empties the buffer and
\* enters the inner loop at the next span.
outer_iteration ==
    /\ ploop = "outer"
    /\ span_i <= Len(restrictions_content)
    /\ LET content == restrictions_content[span_i]
           content_string == Strip(content.string)
       IN  IF content.none \/ ~is_header(content_string)
             THEN /\ span_i' = next_index(span_i)
                  /\ UNCHANGED <<ploop, restriction_list, next_content_string>>
             ELSE IF header_key(content_string) \notin DOMAIN restrictions_data
                    THEN /\ ploop' = "raised"
                         /\ UNCHANGED <<span_i, restriction_list, next_content_string>>
                    ELSE /\ restriction_list' = header_key(content_string)
                         /\ span_i' = next_index(span_i)
                         /\ next_content_string' = <<>>
                         /\ ploop' = "inner"
    /\ examined' = [examined EXCEPT ![span_i] = @ + 1]
    /\ UNCHANGED <<restrictions_content, restrictions_data>>
    /\ UNCHANGED <<engineVars, codeVars, dataVars, cliVars, loopVars, postVars,
                   detailVars>>

\* The buffer after a span's string has been taken in.
accumulate_without_comma(buffer, string) ==
    IF Len(buffer) = 0 THEN LStrip(string) ELSE buffer \o string
accumulate(buffer, string) ==
    IF Len(buffer) = 0 THEN LStrip(string) ELSE buffer \o <<",">> \o string

\* One iteration of the inner while loop: the span's string goes into the
\* buffer; a buffer that starts with a header leaves the loop with the index
\* unchanged; a buffer with closed parentheses, or any buffer under
\* "Special Approvals:", is emitted stripped and emptied.
inner_iteration ==
    /\ ploop = "inner"
    /\ span_i <= Len(restrictions_content)
    /\ LET next_content == restrictions_content[span_i]
           buffer == accumulate(next_content_string, next_content.string)
       IN  IF next_content.none
             THEN /\ span_i' = next_index(span_i)
                  /\ UNCHANGED <<ploop, next_content_string, restrictions_data>>
             ELSE IF is_header(buffer)
                    THEN /\ next_content_string' = buffer
                         /\ ploop' = "outer"
                         /\ UNCHANGED <<span_i, restrictions_data>>
                    ELSE IF restriction_list = SpecialApproval \/ closed_parentheses(buffer)
                           THEN /\ restrictions_data' =
                                      [restrictions_data EXCEPT ![restriction_list] =
                                          Append(@, Strip(buffer))]
                                /\ next_content_string' = <<>>
                                /\ span_i' = next_index(span_i)
                                /\ UNCHANGED ploop
                           ELSE /\ next_content_string' = buffer
                                /\ span_i' = next_index(span_i)
                                /\ UNCHANGED <<ploop, restrictions_data>>
    /\ examined' = [examined EXCEPT ![span_i] = @ + 1]
    /\ UNCHANGED <<restrictions_content, restriction_list>>
    /\ UNCHANGED <<engineVars, codeVars, dataVars, cliVars, loopVars, postVars,
                   detailVars>>

\* The index has passed the last span: both loops end and restrictions_data
\* is returned.
restrictions_return ==
    /\ ploop \in {"outer", "inner"}
    /\ span_i > Len(restrictions_content)
    /\ ploop' = "returned"
    /\ UNCHANGED <<restrictions_content, span_i, restriction_list, next_content_string,
                   restrictions_data, examined>>
    /\ UNCHANGED <<engineVars, codeVars, dataVars, cliVars, loopVars, postVars,
                   detailVars>>

NextParser == outer_iteration \/ inner_iteration \/ restrictions_return

SpecParser == InitParser /\ [][NextParser]_vars

\* The walk is one coroutine without an await: once started it runs on.
SpecParserRuns == SpecParser /\ WF_vars(NextParser)

(* ---- C29, C30 ---- *)

\* The strings of the spans that follow the first one.
LaterStrings ==
    [n \in 1..(Len(restrictions_content) - 1) |-> restrictions_content[n + 1].string]

\* The first piece left-stripped and the later pieces joined with ",".
RECURSIVE CommaJoin(_)
CommaJoin(pieces) ==
    IF Len(pieces) = 1 THEN pieces[1]
    ELSE pieces[1] \o <<",">> \o CommaJoin(Tail(pieces))
Rejoined(pieces) == CommaJoin(<<LStrip(pieces[1])>> \o Tail(pieces))

\* A header with a list of its own, followed by the pieces of one item: the
\* parentheses close in the last piece and not before.
OneSplitItem ==
    /\ Len(restrictions_content) >= 2
    /\ restrictions_content[1] \in HeaderSpans \ {Span(SpecialHeader), Span(NotSpecialHeader)}
    /\ \A n \in 2..Len(restrictions_content) : restrictions_content[n] \in PieceSpans
    /\ LStrip(LaterStrings[1]) # <<>>
    /\ closed_parentheses(Rejoined(LaterStrings))
    /\ \A n \in 1..(Len(LaterStrings) - 1) :
          ~closed_parentheses(Rejoined(SubSeq(LaterStrings, 1, n)))

CommunicationMediaDesign ==
    <<Span(MajorsHeader), Span(Communication), Span(Media), Span(AndDesign)>>

\* C29: an item split across several consecutive spans after a header is
\* emitted as exactly one item, the first piece left-stripped and the later
\* pieces joined with "," (the item is stripped when it is emitted), as soon
\* as the buffer holds an opening parenthesis followed by a closing one; the
\* spans "Must be enrolled in one of the following Majors:", "Communication",
\* "Media", " & Design (COMD)" yield major = ["Communication,Media, & Design
\* (COMD)"] and every other key empty.
C29_SplitItemRejoined ==
    /\ ploop \in {"inner", "returned"} =>
          ~closed_parentheses(next_content_string) \/ is_header(next_content_string)
    /\ (ploop = "returned" /\ OneSplitItem) =>
          restrictions_data =
              [empty_restrictions_data EXCEPT
                  ![header_key(restrictions_content[1].string)] =
                      <<Strip(Rejoined(LaterStrings))>>]
    /\ (ploop = "returned" /\ restrictions_content = CommunicationMediaDesign) =>
          restrictions_data =
              [empty_restrictions_data EXCEPT
                  ![<<"", "major">>] =
                      << <<"Communication", ",", "Media", ",", " ", "&", " ", "Design",
                           " ", "(", "COMD", ")">> >>]

C29_Witness ==
    /\ ploop = "returned"
    /\ restrictions_content = CommunicationMediaDesign
    /\ Len(restrictions_data[<<"", "major">>]) = 1

\* Does header text occur in s?
contains_header(s) == \E n \in DOMAIN s : is_header(SubSeq(s, n, Len(s)))

\* A header, a piece that leaves the buffer open, a second header and a
\* complete item.
HeaderOnOpenBuffer ==
    /\ Len(restrictions_content) = 4
    /\ restrictions_content[1] \in HeaderSpans \ {Span(SpecialHeader), Span(NotSpecialHeader)}
    /\ restrictions_content[2] \in PieceSpans
    /\ LStrip(restrictions_content[2].string) # <<>>
    /\ ~closed_parentheses(restrictions_content[2].string)
    /\ restrictions_content[3] \in HeaderSpans \ {Span(NotSpecialHeader)}
    /\ header_key(restrictions_content[3].string) # header_key(restrictions_content[1].string)
    /\ restrictions_content[4] \in PieceSpans
    /\ closed_parentheses(restrictions_content[4].string)

\* C30: a header span that arrives while the item buffer is open makes the
\* parser discard the buffer and process the span as a header: the later
\* items go under the new header's key, and header text never becomes part of
\* an emitted item.
C30_HeaderClosesOpenBuffer ==
    ploop = "returned" =>
        /\ \A k \in DOMAIN restrictions_data : \A n \in DOMAIN restrictions_data[k] :
              ~contains_header(restrictions_data[k][n])
        /\ HeaderOnOpenBuffer =>
              restrictions_data =
                  [empty_restrictions_data EXCEPT
                      ![header_key(restrictions_content[3].string)] =
                          <<Strip(restrictions_content[4].string)>>]

(* ---- postprocess.py: CodeMapper ---- *)

\* The mapper: its four dictionaries and its two reverse maps, which
\* __init__ builds once from the dictionaries it loaded.
Reverse(m) ==
    [v \in {m[k] : k \in DOMAIN m} |-> CHOOSE k \in DOMAIN m : m[k] = v]
CodeMapper(attribute_map, instructor_map, restriction_map, subject_map) ==
    [attributes |-> attribute_map, instructors |-> instructor_map,
     restrictions |-> restriction_map, subjects |-> subject_map,
     subject_name_to_code |-> Reverse(subject_map),
     instructor_name_to_rcsid |-> Reverse(instructor_map)]

\* What a call leaves behind: the mapper, the warnings logged, the
\* identifiers _generate_rcsid returned, the list under construction and
\* whether an exception has been raised.
Acc(m, log, syn, out) ==
    [mapper |-> m, log |-> log, syn |-> syn, out |-> out, raised |-> FALSE]

\* The conflict warning of add_subject, add_attribute, add_restriction and
\* add_instructor.
Conflict(dict, code, name, what) ==
    IF code \in DOMAIN dict /\ dict[code] # name THEN {<<"conflict", what, code>>} ELSE {}

add_subject(a, code, name) ==
    [a EXCEPT !.log = @ \cup Conflict(a.mapper.subjects, code, name, "subject"),
              !.mapper.subjects = Put(@, code, name),
              !.mapper.subject_name_to_code = Put(@, name, code)]

add_attribute(a, code, name) ==
    [a EXCEPT !.log = @ \cup Conflict(a.mapper.attributes, code, name, "attribute"),
              !.mapper.attributes = Put(@, code, name)]

\* r_type.startswith("not_") and r_type[4:], for the keys of the snapshot
strip_not(r_type) == IF r_type = "not_major" THEN "major" ELSE r_type

add_restriction(a, r_type, code, name) ==
    LET t == strip_not(r_type)
        of_type == IF t \in DOMAIN a.mapper.restrictions
                     THEN a.mapper.restrictions[t] ELSE EmptyMap
    IN  [a EXCEPT !.log = @ \cup Conflict(of_type, code, name, "restriction"),
                  !.mapper.restrictions = Put(@, t, Put(of_type, code, Strip(name)))]

add_instructor(a, rcsid, name) ==
    [a EXCEPT !.log = @ \cup Conflict(a.mapper.instructors, rcsid, name, "instructor"),
              !.mapper.instructors = Put(@, rcsid, name)]

\* None
PyNone == <<"<None>">>

get_subject_code(m, name) ==
    IF name \in DOMAIN m.subject_name_to_code THEN m.subject_name_to_code[name] ELSE PyNone

IsAlpha(c) == IsUpper(c) \/ IsLower(c)

\* re.match(r"(.+), (.+)", name): the places of a ", " with text on both
\* sides; the greedy first group ends at the last of them.
comma_places(name) ==
    {k \in 2..(Len(name) - 2) : name[k] = "," /\ name[k + 1] = " "}
last_name(name) == SubSeq(name, 1, Max(comma_places(name)) - 1)
first_name(name) == SubSeq(name, Max(comma_places(name)) + 2, Len(name))

\* The loop over the last name: alphabetic characters, lowercased, until
\* there are five.
RECURSIVE last_name_component(_, _)
last_name_component(chars, component) ==
    IF chars = <<>> THEN component
    ELSE LET grown == IF IsAlpha(Head(chars))
                        THEN component \o <<LowerChar(Head(chars))>> ELSE component
         IN  IF Len(grown) = 5 THEN grown ELSE last_name_component(Tail(chars), grown)

\* The loop over the first name: its first alphabetic character, lowercased.
RECURSIVE first_name_initial(_)
first_name_initial(chars) ==
    IF chars = <<>> THEN <<>>
    ELSE IF IsAlpha(Head(chars)) THEN <<LowerChar(Head(chars))>>
    ELSE first_name_initial(Tail(chars))

\* The while loop: the counter is appended until the identifier is no key.
RECURSIVE unique_rcsid_first_suffix(_, _, _, _)
unique_rcsid_first_suffix(instructors, original_rcsid, counter, rcsid) ==
    IF rcsid \in DOMAIN instructors THEN original_rcsid \o FormatNat(counter) ELSE rcsid
RECURSIVE unique_rcsid(_, _, _, _)
unique_rcsid(instructors, original_rcsid, counter, rcsid) ==
    IF rcsid \in DOMAIN instructors
      THEN unique_rcsid(instructors, original_rcsid, counter + 1,
                        original_rcsid \o FormatNat(counter))
      ELSE rcsid

\* re.sub(r"\s+", "", name).lower()[:8]
name_fallback(name) ==
    LET squeezed == Lower(SelectSeq(name, LAMBDA c : c \notin Whitespace))
    IN  SubSeq(squeezed, 1, Min({8, Len(squeezed)}))

generate_rcsid(instructors, instructor_name) ==
    IF comma_places(instructor_name) = {} THEN name_fallback(instructor_name)
    ELSE LET rcsid == last_name_component(last_name(instructor_name), <<>>)
                          \o first_name_initial(first_name(instructor_name))
         IN  unique_rcsid(instructors, rcsid, 1, rcsid)

\* get_or_generate_rcsid: the reverse lookup, else a new identifier; a call
\* of _generate_rcsid is recorded with the keys it ran against.
get_or_generate_rcsid(a, name) ==
    IF name \in DOMAIN a.mapper.instructor_name_to_rcsid
      THEN [a EXCEPT !.out = a.mapper.instructor_name_to_rcsid[name]]
      ELSE LET rcsid == generate_rcsid(a.mapper.instructors, name)
           IN  [a EXCEPT !.out = rcsid,
                         !.log = @ \cup (IF comma_places(name) = {}
                                           THEN {<<"name_format", name>>} ELSE {}),
                         !.syn = Append(@, [name |-> name, rcsid |-> rcsid,
                                            keys |-> DOMAIN a.mapper.instructors])]

(* ---- postprocess.py: process_term ---- *)

\* The values of a snapshot's lists are strings or dicts; a faculty dict has
\* a displayName and an emailAddress, a course dict a subjectName and a
\* courseNumber.
PyStr(text) ==
    [type |-> "str", text |-> text, displayName |-> <<>>, emailAddress |-> PyNone,
     subjectName |-> <<>>, courseNumber |-> <<>>]
FacultyDict(name, email) ==
    [type |-> "dict", text |-> <<>>, displayName |-> name, emailAddress |-> email,
     subjectName |-> <<>>, courseNumber |-> <<>>]
CourseDict(subject, number) ==
    [type |-> "dict", text |-> <<>>, displayName |-> <<>>, emailAddress |-> PyNone,
     subjectName |-> subject, courseNumber |-> number]

\* str(value) inside an f-string, and str(faculty) of a dict
format_value(v) == IF v = PyNone THEN <<"None">> ELSE v
repr_of_dict(d) == <<"{'bannerId': ...}">>

\* re.match(r"(.+)  (.+)", attr): the places of two spaces with text on
\* both sides; the greedy first group ends at the last of them.
two_space_places(attr) ==
    {k \in 2..(Len(attr) - 2) : attr[k] = " " /\ attr[k + 1] = " "}

\* `value` computed once and named in Body.
With(value, Body(_)) == CHOOSE r \in {Body(v) : v \in {value}} : TRUE

RECURSIVE codify_attributes(_, _)
codify_attributes(acc, attrs) ==
    With(acc, LAMBDA a :
        IF attrs = <<>> THEN a
        ELSE LET attr == Head(attrs)
                 places == two_space_places(attr)
                 k == Max(places)
                 code == SubSeq(attr, k + 2, Len(attr))
             IN  IF places # {}
                   THEN codify_attributes(
                            [add_attribute(a, code, Strip(SubSeq(attr, 1, k - 1)))
                                EXCEPT !.out = Append(@, code)],
                            Tail(attrs))
                   ELSE codify_attributes(
                            [a EXCEPT !.out = Append(@, attr),
                                      !.log = @ \cup {<<"attribute_format", attr>>}],
                            Tail(attrs)))

\* re.match(r"(.+)\s*\((.+)\)", restriction): the second group ends at the
\* last ")", the first at the last "(" that leaves text on both sides.
last_close(r) == Max({q \in DOMAIN r : r[q] = ")"} \cup {0})
open_places(r) == {k \in 2..(last_close(r) - 2) : r[k] = "("}

RECURSIVE codify_restriction_list(_, _, _)
codify_restriction_list(acc, r_type, r_list) ==
    With(acc, LAMBDA a :
        IF r_list = <<>> THEN a
        ELSE LET restriction == Head(r_list)
                 places == open_places(restriction)
                 k == Max(places)
                 code == SubSeq(restriction, k + 1, last_close(restriction) - 1)
             IN  IF places # {}
                   THEN codify_restriction_list(
                            [add_restriction(a, r_type, code,
                                             Strip(SubSeq(restriction, 1, k - 1)))
                                EXCEPT !.out = Append(@, code)],
                            r_type, Tail(r_list))
                   ELSE codify_restriction_list(
                            [a EXCEPT !.out = Append(@, restriction)], r_type,
                            Tail(r_list)))

\* The loop over the items of class_entry["restrictions"]: the
\* special_approval list is passed over, every other list is replaced.
special_approval_skipped(r_type) == r_type = "special_approval"

RECURSIVE codify_restrictions(_, _, _)
codify_restrictions(acc, restrictions, r_types) ==
    With(acc, LAMBDA a :
        IF r_types = <<>> THEN [a EXCEPT !.out = restrictions]
        ELSE LET r_type == Head(r_types)
             IN  IF r_type \notin DOMAIN restrictions \/ special_approval_skipped(r_type)
                   THEN codify_restrictions(a, restrictions, Tail(r_types))
                   ELSE With(codify_restriction_list([a EXCEPT !.out = <<>>], r_type,
                                                     restrictions[r_type]),
                             LAMBDA done :
                                 codify_restrictions(
                                     done, [restrictions EXCEPT ![r_type] = done.out],
                                     Tail(r_types))))

\* The identifier of one faculty entry: the part of the email before the
\* first "@", else the mapper's identifier for the name.
RECURSIVE codify_faculty(_, _)
codify_faculty(acc, entries) ==
    With(acc, LAMBDA a :
        IF entries = <<>> \/ a.raised THEN a
        ELSE LET faculty == Head(entries)
                 name == faculty.displayName
                 email == faculty.emailAddress
                 from_email == IF email # PyNone /\ email # <<>>
                                 THEN BeforeFirst(email, "@") ELSE PyNone
                 synthesize == (from_email = PyNone \/ from_email = <<>>) /\ name # <<>>
             IN  IF faculty.type # "dict"
                   THEN [a EXCEPT !.raised = TRUE]
                   ELSE With(IF synthesize THEN get_or_generate_rcsid(a, name) ELSE a,
                             LAMBDA looked_up :
                        LET rcsid == IF synthesize THEN looked_up.out ELSE from_email
                            has_rcsid == rcsid # PyNone /\ rcsid # <<>>
                            added == IF has_rcsid /\ name # <<>>
                                       THEN add_instructor(looked_up, rcsid, name)
                                       ELSE looked_up
                            entry == IF has_rcsid THEN rcsid
                                     ELSE IF name # <<>> THEN name
                                     ELSE repr_of_dict(faculty)
                        IN  codify_faculty(
                                [added EXCEPT !.out = Append(a.out, PyStr(entry))],
                                Tail(entries))))

\* What the codifier writes for a subject name the reverse map lacks.
unknown_subject(subj_name) == format_value(PyNone)

\* The loop over a crosslists or corequisites list.
RECURSIVE codify_courses(_, _)
codify_courses(acc, items) ==
    With(acc, LAMBDA a :
        IF items = <<>> \/ a.raised THEN a
        ELSE LET item == Head(items)
                 subj_code == get_subject_code(a.mapper, item.subjectName)
                 shown == IF subj_code = PyNone THEN unknown_subject(item.subjectName)
                          ELSE subj_code
             IN  IF item.type # "dict"
                   THEN [a EXCEPT !.raised = TRUE]
                   ELSE codify_courses(
                            [a EXCEPT !.out =
                                Append(@, PyStr(shown \o <<" ">> \o item.courseNumber))],
                            Tail(items)))

\* One class entry: its five fields in turn; a field is replaced once its
\* loop has ended, so an exception leaves it and the later fields as they
\* were.
codify_class(acc, class_entry) ==
    With(codify_attributes([acc EXCEPT !.out = <<>>], class_entry.attributes),
         LAMBDA a1 :
    With(codify_restrictions(a1, class_entry.restrictions, RestrictionKeyOrder),
         LAMBDA a2 :
    With(codify_faculty([a2 EXCEPT !.out = <<>>], class_entry.faculty),
         LAMBDA a3 :
    With(codify_courses([a3 EXCEPT !.out = <<>>], class_entry.crosslists),
         LAMBDA a4 :
    With(codify_courses([a4 EXCEPT !.out = <<>>], class_entry.corequisites),
         LAMBDA a5 :
        [a5 EXCEPT !.out =
            [attributes |-> a1.out,
             restrictions |-> a2.out,
             faculty |-> IF a3.raised THEN class_entry.faculty ELSE a3.out,
             crosslists |-> IF a4.raised THEN class_entry.crosslists ELSE a4.out,
             corequisites |-> IF a5.raised THEN class_entry.corequisites
                              ELSE a5.out]])))))

\* The loops over the class lists of a subject's courses, in the order the
\* classes are visited; `done` are the entries as they stand.
RECURSIVE codify_classes(_, _, _)
codify_classes(acc, classes, done) ==
    With(acc, LAMBDA a :
        IF classes = <<>> THEN [a EXCEPT !.out = done]
        ELSE IF a.raised THEN [a EXCEPT !.out = done \o classes]
        ELSE With(codify_class(a, Head(classes)), LAMBDA one :
                  codify_classes(one, Tail(classes), Append(done, one.out))))

\* process_term over the subjects of the term: add_subject for a subject
\* that has a "subjectDescription", then its classes.
RECURSIVE process_term(_, _, _)
process_term(acc, subjects_data, done) ==
    With(acc, LAMBDA a :
        IF subjects_data = <<>> THEN [a EXCEPT !.out = done]
        ELSE IF a.raised THEN [a EXCEPT !.out = done \o subjects_data]
        ELSE LET subject_data == Head(subjects_data)
             IN  With(IF "subjectDescription" \in subject_data.keys
                        THEN add_subject(a, subject_data.code, subject_data.name)
                        ELSE a,
                      LAMBDA named :
                 With(IF "courses" \in subject_data.keys
                        THEN codify_classes(named, subject_data.courses, <<>>)
                        ELSE [named EXCEPT !.out = subject_data.courses],
                      LAMBDA classes :
                     process_term(classes, Tail(subjects_data),
                                  Append(done,
                                         [subject_data EXCEPT !.courses = classes.out])))))

(* ---- postprocess.py: snapshots and runs ---- *)

DoeJohn == <<"D", "o", "e", ",", " ", "J", "o", "h", "n">>
DoeJake == <<"D", "o", "e", ",", " ", "J", "a", "k", "e">>
StClairAl == <<"S", "t", ".", " ", "C", "l", "a", "i", "r", ",", " ", "A", "l">>
Staff == <<"S", "t", "a", "f", "f">>
OtherPerson == <<"O", "t", "h", "e", "r", ",", " ", "P", "e", "r", "s", "o", "n">>
JdRpi == <<"j", "d">> \o RpiSuffix
BobGmail == <<"b", "o", "b", "@", "g", "m", "a", "i", "l", ".", "c", "o", "m">>
JDRpi == <<"J", "D">> \o RpiSuffix
doej == <<"d", "o", "e", "j">>

\* The faculty entries process_class_details writes: displayName and
\* emailAddress as the SIS gave them.
FacultyCatalogue ==
    {FacultyDict(DoeJohn, PyNone), FacultyDict(DoeJake, PyNone), FacultyDict(DoeJohn, JdRpi),
     FacultyDict(DoeJohn, JDRpi),
     FacultyDict(StClairAl, PyNone), FacultyDict(Staff, BobGmail), FacultyDict(<<>>, PyNone)}
FacultyLists == UNION {[1..n -> FacultyCatalogue] : n \in 0..MaxFaculty}

CommunicationIntensive == <<"Communication Intensive", " ", " ", "COMM">>
Writing == <<"Writing">>
AttributeLists == {<<>>, <<CommunicationIntensive>>, <<CommunicationIntensive, Writing>>}

ArchitectureItem == <<"Architecture", " ", "(", "ARCH", ")">>
DesignItem ==
    <<"Communication", ",", "Media", ",", " ", "&", " ", "Design", " ", "(", "COMD", ")">>
Freshman == <<"Freshman">>
InstructorApproval == <<"Instructor">>
Restrictions(major, not_major, special_approval) ==
    [k \in Range(RestrictionKeyOrder) |->
        IF k = "major" THEN major ELSE IF k = "not_major" THEN not_major
        ELSE special_approval]
RestrictionDicts ==
    {Restrictions(<<>>, <<>>, <<>>),
     Restrictions(<<ArchitectureItem>>, <<>>, <<InstructorApproval>>),
     Restrictions(<<>>, <<DesignItem, Freshman>>, <<>>)}

ComputerScience == <<"Computer Science">>
BasketWeaving == <<"Basket Weaving">>
CSCI == <<"CSCI">>
CourseLists ==
    {<<>>, <<CourseDict(ComputerScience, <<"1010">>)>>,
     <<CourseDict(BasketWeaving, <<"2020">>)>>}

\* The class entries of a raw snapshot.
RawClasses ==
    [attributes : AttributeLists, restrictions : RestrictionDicts, faculty : FacultyLists,
     crosslists : CourseLists, corequisites : CourseLists]

\* A raw snapshot: get_term_course_data gives each subject a "subjectName"
\* and its "courses".
RawSnapshot(class_entry) ==
    << [code |-> CSCI, keys |-> {"subjectName", "courses"}, name |-> ComputerScience,
        courses |-> <<class_entry>>] >>

\* The dictionaries the mapper loads.
LoadedInstructors == {EmptyMap, [k \in {doej} |-> OtherPerson]}
LoadedSubjects == {EmptyMap, [k \in {CSCI} |-> ComputerScience]}

\* postprocess.main has built the mapper and loaded a term file.
InitPost ==
    /\ EngineInit /\ CodeIdle /\ DataIdle /\ CliIdle /\ LoopInit /\ ParserIdle /\ DetailIdle
    /\ \E class_entry \in RawClasses : term_data = RawSnapshot(class_entry)
    /\ \E instructor_map \in LoadedInstructors, subject_map \in LoadedSubjects :
          mapper = CodeMapper(EmptyMap, instructor_map, EmptyMap, subject_map)
    /\ post_pc = "ready"
    /\ post_log = {}
    /\ syntheses = <<>>
    /\ runs = 0
    /\ raw_data = term_data
    /\ prev_data = term_data

\* process_term runs on the snapshot as it stands, with the mapper as it
\* stands.
process_term_call ==
    /\ post_pc \in {"ready", "returned"}
    /\ runs < MaxRuns
    /\ \E r \in {process_term(Acc(mapper, post_log, syntheses, <<>>), term_data, <<>>)} :
           /\ term_data' = r.out
           /\ mapper' = r.mapper
           /\ post_log' = r.log
           /\ syntheses' = r.syn
           /\ post_pc' = IF r.raised THEN "raised" ELSE "returned"
    /\ runs' = runs + 1
    /\ prev_data' = term_data
    /\ UNCHANGED raw_data
    /\ UNCHANGED <<engineVars, codeVars, dataVars, cliVars, loopVars, parserVars,
                   detailVars>>

NextPost == process_term_call

SpecPost == InitPost /\ [][NextPost]_vars

(* ---- C23 .. C27 ---- *)

\* The class entry of the snapshot, as the scraper wrote it and as it stands.
RawClass == raw_data[1].courses[1]
OutClass == term_data[1].courses[1]
FirstRunReturned == runs = 1 /\ post_pc = "returned"

\* A restriction string "<name> (<code>)" and its code.
HasNameAndCode(r) == Len(r) >= 4 /\ r[Len(r)] = ")" /\ r[Len(r) - 2] = "("
CodeOf(r) == <<r[Len(r) - 1]>>

\* C23: in the codified output every restriction string "<name> (<code>)" is
\* replaced by "<code>", and the special_approval entries of every class are
\* removed.
C23_RestrictionsCodified ==
    FirstRunReturned =>
        /\ \A k \in DOMAIN RawClass.restrictions \ {"special_approval"} :
              /\ Len(OutClass.restrictions[k]) = Len(RawClass.restrictions[k])
              /\ \A n \in DOMAIN RawClass.restrictions[k] :
                    HasNameAndCode(RawClass.restrictions[k][n]) =>
                        OutClass.restrictions[k][n] = CodeOf(RawClass.restrictions[k][n])
        /\ OutClass.restrictions["special_approval"] = <<>>

\* C24: a corequisite or crosslist entry whose subject name is in the reverse
\* subject map becomes "<subject_code> <number>"; one whose subject name is
\* not in the map keeps its subject name and number, and is logged.
CourseRewritten(item, out) ==
    IF item.subjectName \in DOMAIN mapper.subject_name_to_code
      THEN out = PyStr(mapper.subject_name_to_code[item.subjectName] \o <<" ">>
                       \o item.courseNumber)
      ELSE /\ out = PyStr(item.subjectName \o <<" ">> \o item.courseNumber)
           /\ \E entry \in post_log : entry[Len(entry)] = item.subjectName
C24_CoursesRewritten ==
    FirstRunReturned =>
        /\ Len(OutClass.crosslists) = Len(RawClass.crosslists)
        /\ Len(OutClass.corequisites) = Len(RawClass.corequisites)
        /\ \A n \in DOMAIN RawClass.crosslists :
              CourseRewritten(RawClass.crosslists[n], OutClass.crosslists[n])
        /\ \A n \in DOMAIN RawClass.corequisites :
              CourseRewritten(RawClass.corequisites[n], OutClass.corequisites[n])

\* The identifier the rule gives a "Last, First" name against a set of keys.
CommaAt(name) == CHOOSE k \in DOMAIN name : name[k] = "," /\ name[k + 1] = " "
FirstFew(s, n) == SubSeq(s, 1, Min({n, Len(s)}))
Letters(s) == Lower(SelectSeq(s, IsAlpha))
BaseOf(name) ==
    FirstFew(Letters(SubSeq(name, 1, CommaAt(name) - 1)), 5)
        \o FirstFew(Letters(SubSeq(name, CommaAt(name) + 2, Len(name))), 1)
Numbered(base, keys) ==
    base \o FormatNat(Min({n \in 1..(Cardinality(keys) + 1) : base \o FormatNat(n) \notin keys}))
IsLastFirst(name) ==
    \E k \in 2..(Len(name) - 2) : name[k] = "," /\ name[k + 1] = " "

\* C25: for an instructor name "Last, First" the synthesized identifier is
\* base = up to the first 5 alphabetic characters of Last, lowercased, then
\* the first alphabetic character of First, lowercased; it is base when base
\* is no key of the instructor dictionary, else base followed by the smallest
\* n >= 1 for which that is no key; it is never a key already present: with
\* doej taken, "Doe, John" gets doej1 and then "Doe, Jake" gets doej2.
C25_SynthesizedIdentifier ==
    /\ \A n \in DOMAIN syntheses :
          IsLastFirst(syntheses[n].name) =>
              /\ syntheses[n].rcsid \notin syntheses[n].keys
              /\ syntheses[n].rcsid =
                    IF BaseOf(syntheses[n].name) \notin syntheses[n].keys
                      THEN BaseOf(syntheses[n].name)
                      ELSE Numbered(BaseOf(syntheses[n].name), syntheses[n].keys)
    /\ (/\ FirstRunReturned
        /\ doej \in DOMAIN mapper.instructors /\ mapper.instructors[doej] = OtherPerson
        /\ RawClass.faculty = <<FacultyDict(DoeJohn, PyNone), FacultyDict(DoeJake, PyNone)>>)
          => OutClass.faculty = <<PyStr(doej \o <<"1">>), PyStr(doej \o <<"2">>)>>

C25_Witness ==
    /\ FirstRunReturned
    /\ RawClass.faculty = <<FacultyDict(DoeJohn, PyNone), FacultyDict(DoeJake, PyNone)>>
    /\ Len(syntheses) = 2
    /\ syntheses[1].keys = {doej}
    /\ syntheses[2].rcsid = doej \o <<"2">>

\* C26: process_term on a snapshot that has already been codified completes
\* without error and leaves the snapshot unchanged.
C26_CodificationIdempotent ==
    runs = 2 => (post_pc = "returned" /\ term_data = prev_data)

\* C27: for every faculty entry without an institutional email the raw
\* snapshot carries identifier "Unknown RCSID" and the processed output
\* carries a synthesized identifier in its place.
Institutional(email) == email # PyNone /\ EndsWith(email, RpiSuffix)
C27_UnknownRcsidSynthesized ==
    FirstRunReturned =>
        \A n \in DOMAIN RawClass.faculty :
            ~Institutional(RawClass.faculty[n].emailAddress) =>
                /\ "identifier" \in DOMAIN RawClass.faculty[n]
                /\ RawClass.faculty[n]["identifier"] = <<"Unknown RCSID">>
                /\ \E k \in DOMAIN syntheses :
                      /\ syntheses[k].name = RawClass.faculty[n].displayName
                      /\ OutClass.faculty[n] = PyStr(syntheses[k].rcsid)

(* ---- C40 ---- *)

\* C40: the span walk ends for every finite list of spans: the index never
\* decreases, every iteration of the outer loop moves it on by one or more
\* (an iteration that raises ends the walk where it stands), and no span is
\* read by more than two iterations: at most once by the inner loop and
\* once by the outer loop.
C40_SpanWalkTerminates ==
    /\ <>(ploop \in {"returned", "raised"})
    /\ [][/\ span_i' >= span_i
          /\ (ploop = "outer" /\ ploop' # "returned" /\ ploop' # "raised")
                 => span_i' >= span_i + 1]_vars
    /\ [](\A n \in DOMAIN examined : examined[n] <= 2)

\* The walk has returned after an item candidate turned out to be a header
\* and was read again as that header.
C40_Witness ==
    /\ ploop = "returned"
    /\ \E n \in DOMAIN examined :
          /\ examined[n] = 2
          /\ is_header(Strip(restrictions_content[n].string))

(* ---- C36 ---- *)

\* C36: the restriction-dictionary update in process_class_details never
\* raises: whatever the restrictions of the class and whatever the
\* dictionary holds, a name that is a code key of its type included, no
\* class fails in its map updates.
C36_RestrictionUpdateNeverRaises ==
    \A i \in updated : cpc[i] # "failed"

(* ---- C38, C39 ---- *)

NoEmail(faculty) == faculty.emailAddress = PyNone \/ faculty.emailAddress = <<>>

\* C38: within one run of process_term, two faculty entries with the same
\* display name and no email get the same identifier, and the instructor
\* dictionary has no more than one key for that name.
C38_SameNameSameIdentifier ==
    FirstRunReturned =>
        \A n, k \in DOMAIN RawClass.faculty :
            (/\ NoEmail(RawClass.faculty[n]) /\ NoEmail(RawClass.faculty[k])
             /\ RawClass.faculty[n].displayName # <<>>
             /\ RawClass.faculty[n].displayName = RawClass.faculty[k].displayName)
              => /\ OutClass.faculty[n] = OutClass.faculty[k]
                 /\ Cardinality({c \in DOMAIN mapper.instructors :
                        mapper.instructors[c] = RawClass.faculty[n].displayName}) <= 1

\* The keys the aggregator upserts for one faculty entry during scraping.
AggregatorKeys(faculty) ==
    DOMAIN instructors_update([map |-> EmptyMap, ups |-> {}], <<faculty>>).map

\* C39: for a faculty entry with an @rpi.edu email, the identifier the
\* codifier writes and upserts is the identifier the aggregator upserted for
\* the entry, the lowercased local part of the email.
C39_CodifierKeepsAggregatorIdentifier ==
    FirstRunReturned =>
        \A n \in DOMAIN RawClass.faculty :
            Institutional(RawClass.faculty[n].emailAddress) =>
                /\ AggregatorKeys(RawClass.faculty[n]) =
                      {Lower(BeforeFirst(RawClass.faculty[n].emailAddress, "@"))}
                /\ \E c \in AggregatorKeys(RawClass.faculty[n]) :
                      /\ OutClass.faculty[n] = PyStr(c)
                      /\ c \in DOMAIN mapper.instructors

(* ---- C32 ---- *)

\* C32: a subject worker that has finished (returned, raised or cancelled)
\* has its session closed and holds no permit: the semaphore's value is the
\* cap less the workers inside their async with blocks, and it is the cap
\* again once every worker that was launched has finished.
C32_EveryExitReleases ==
    /\ \A w \in Workers :
          wpc[w] \in WorkerFinished \cup {"new", "acquire"} => SubjSession(w) \notin openSessions
    /\ semaphore = SessionCap - Cardinality(Holders)
    /\ (\A w \in Workers : wpc[w] \in WorkerFinished \cup {"new"}) => semaphore = SessionCap

\* Main is done after one worker raised, one was cancelled while it held a
\* session, and one returned.
C32_Witness ==
    /\ mpc = "done"
    /\ \A w \in Workers : wpc[w] \in WorkerFinished \cup {"new"}
    /\ \E w \in Workers : wpc[w] = "raised" /\ <<SubjSession(w), w>> \in sessionUse
    /\ \E w \in Workers : wpc[w] = "cancelled" /\ <<SubjSession(w), w>> \in sessionUse
    /\ \E w \in Workers : wpc[w] = "returned" /\ <<SubjSession(w), w>> \in sessionUse
    /\ semaphore = SessionCap

(* ---- C33 ---- *)

\* C33: under fair scheduling, with every HTTP attempt completing, every
\* launched subject worker eventually acquires a session permit and then
\* finishes, every term driver eventually finishes, and main eventually
\* returns.
C33_EveryWorkerAcquiresAndFinishes ==
    /\ \A w \in Workers : (wpc[w] = "acquire") ~> (wpc[w] \in WorkerHolding)
    /\ \A w \in Workers : (wpc[w] \in WorkerHolding) ~> (wpc[w] \in WorkerFinished)
    /\ \A t \in Terms : (tpc[t] = "list") ~> (tret[t] \in TermFinished)
    /\ <>(mpc = "done")

\* No state is stuck short of the end: where no step is left, main has
\* returned and every worker and every term driver is finished or was never
\* started.
NoTaskStuck ==
    (~ENABLED Next) =>
        /\ mpc = "done"
        /\ \A w \in Workers : wpc[w] \notin {"acquire"} \cup WorkerHolding
        /\ \A t \in Terms : tpc[t] # "list"

(* ---- C34 ---- *)

\* Where the returned course map holds a record of the class with this CRN.
RecordsOf(crn) ==
    {p \in UNION {{<<k, j>> : j \in DOMAIN sret[k].classes} : k \in DOMAIN sret} :
        sret[p[1]].classes[p[2]].crn = crn}

\* C34: the course map a subject worker returns holds exactly one class
\* record for each entry class_search returned, under the entry's course
\* number, and no other record, in whatever order the aggregators of the
\* entries ran.
C34_OneRecordPerEntry ==
    spc = "returned" =>
        /\ \A i \in DOMAIN class_data :
              /\ Cardinality(RecordsOf(class_data[i].crn)) = 1
              /\ \A p \in RecordsOf(class_data[i].crn) :
                    sret[p[1]].num = class_data[i].courseNumber
        /\ \A k \in DOMAIN sret : \A j \in DOMAIN sret[k].classes :
              \E i \in DOMAIN class_data : class_data[i].crn = sret[k].classes[j].crn
        /\ \A k, l \in DOMAIN sret : sret[k].num = sret[l].num => k = l

\* Two entries of one course, the aggregator of the second having appended
\* before the aggregator of the first, and the worker has returned.
C34_Witness ==
    /\ spc = "returned"
    /\ Len(class_data) = 2
    /\ class_data[1].courseNumber = class_data[2].courseNumber
    /\ \E k \in DOMAIN course_data :
          /\ Len(course_data[k].classes) = 2
          /\ course_data[k].classes[1].crn = class_data[2].crn

(* ---- C37 ---- *)

\* The entries of a dictionary file, and those of a dictionary.
FileEntries(file) == {<<file[n].key, file[n].val>> : n \in DOMAIN file}
DictEntries(m) == {<<k, m[k]>> : k \in DOMAIN m}

\* No key of m is missing from m2.
KeysKept(m, m2) == \A k \in DOMAIN m : k \in DOMAIN m2

\* The step is an upsert of value v under key k: by the subject listing of a
\* term, or by the map updates of a class.
SubjectUpsert(k, v) ==
    /\ listed' = listed + 1
    /\ \E q \in SubjectListings : \E n \in DOMAIN q :
          q[n].code = k /\ q[n].description = v
ClassUpsert(k, v, update(_)) ==
    \E i \in updated' \ updated :
        k \in DOMAIN update(class_data[i]) /\ update(class_data[i])[k] = v
InstructorsOf(entry) == instructors_update([map |-> EmptyMap, ups |-> {}], entry.faculty).map
AttributesOf(entry) == attributes_update([map |-> EmptyMap, ups |-> {}], entry.attributes).map
RestrictionsOf(entry) ==
    restrictions_update([map |-> EmptyMap, ups |-> {}, raised |-> FALSE],
                        entry.restrictions, RestrictionKeyOrder).map

\* C37: during a scrape run no key is removed from any of the four
\* dictionaries, a value changes only by an upsert of its key, and the
\* files written at the end hold the dictionaries' entries: every entry
\* loaded from a file is in the file written at the end, with its loaded
\* value unless an upsert of its key replaced it.
C37_NoKeyRemoved ==
    /\ [][/\ KeysKept(subject_code_name_map, subject_code_name_map')
          /\ KeysKept(instructor_rcsid_name_map, instructor_rcsid_name_map')
          /\ KeysKept(attribute_code_name_map, attribute_code_name_map')
          /\ KeysKept(restriction_code_name_map, restriction_code_name_map')
          /\ \A t \in DOMAIN restriction_code_name_map :
                KeysKept(restriction_code_name_map[t], restriction_code_name_map'[t])
          /\ \A k \in DOMAIN subject_code_name_map :
                subject_code_name_map'[k] # subject_code_name_map[k]
                    => SubjectUpsert(k, subject_code_name_map'[k])
          /\ \A k \in DOMAIN instructor_rcsid_name_map :
                instructor_rcsid_name_map'[k] # instructor_rcsid_name_map[k]
                    => ClassUpsert(k, instructor_rcsid_name_map'[k], InstructorsOf)
          /\ \A k \in DOMAIN attribute_code_name_map :
                attribute_code_name_map'[k] # attribute_code_name_map[k]
                    => ClassUpsert(k, attribute_code_name_map'[k], AttributesOf)
          /\ \A t \in DOMAIN restriction_code_name_map :
                \A c \in DOMAIN restriction_code_name_map[t] :
                    restriction_code_name_map'[t][c] # restriction_code_name_map[t][c]
                        => \E i \in updated' \ updated :
                              /\ t \in DOMAIN RestrictionsOf(class_data[i])
                              /\ c \in DOMAIN RestrictionsOf(class_data[i])[t]]_vars
    /\ [](map_files # <<>> =>
            /\ FileEntries(map_files[1].subject) = DictEntries(subject_code_name_map)
            /\ FileEntries(map_files[1].instructor) = DictEntries(instructor_rcsid_name_map)
            /\ FileEntries(map_files[1].attribute) = DictEntries(attribute_code_name_map)
            /\ FileEntries(map_files[1].restriction) = DictEntries(restriction_code_name_map)
            /\ KeysKept(loaded_maps.subject, subject_code_name_map)
            /\ KeysKept(loaded_maps.instructor, instructor_rcsid_name_map)
            /\ KeysKept(loaded_maps.attribute, attribute_code_name_map)
            /\ KeysKept(loaded_maps.restriction, restriction_code_name_map)
            /\ \A t \in DOMAIN loaded_maps.restriction :
                  KeysKept(loaded_maps.restriction[t], restriction_code_name_map[t]))

\* The files are written after a run that loaded the entries of an earlier
\* run, replaced the value of one of them and kept the value of another.
C37_Witness ==
    /\ map_files # <<>>
    /\ loaded_maps = EarlierRun
    /\ \E k \in DOMAIN loaded_maps.attribute :
          attribute_code_name_map[k] # loaded_maps.attribute[k]
    /\ \E k \in DOMAIN loaded_maps.attribute :
          attribute_code_name_map[k] = loaded_maps.attribute[k]
    /\ \E c \in DOMAIN restriction_code_name_map["major"] :
          c \notin DOMAIN loaded_maps.restriction["major"]

(* ---- C35 ---- *)

\* C35: the connection pool the subject workers' sessions share is open as
\* long as a subject worker of the run is still to finish: a worker that
\* closes its session does not close the pool.
C35_PoolOpenWhileWorkersRun ==
    connector_closed =>
        /\ \A w \in Workers : wpc[w] \notin {"acquire"} \cup WorkerHolding
        /\ \A t \in Terms : tret[t] \in TermFinished

\* ---------------------------------------------------------------------------
\* The class-detail endpoints of one class: what each parser does with the
\* shape of the page it is given, and what the task groups around the parsers
\* do with the outcome.
\* ---------------------------------------------------------------------------

MaxRows == 2

Endpoints == {"description", "restrictions", "corequisites", "crosslists"}

\* The column counts a table head or a table row can have: the three columns
\* of a corequisite table and the five of a crosslist table.
ColumnCounts == {3, 5}

\* A page as the parsers look at it: whether the section is there, whether it
\* has text, whether it has a table, a head and a body, the number of head
\* cells and the number of cells of each row.
PageShape(section, text, table, thead, tbody, th, rows) ==
    [section |-> section, text |-> text, table |-> table, thead |-> thead,
     tbody |-> tbody, th |-> th, rows |-> rows]

SectionMissing == PageShape(FALSE, FALSE, FALSE, FALSE, FALSE, 0, <<>>)
SectionEmpty == PageShape(TRUE, FALSE, FALSE, FALSE, FALSE, 0, <<>>)
SectionWithText == PageShape(TRUE, TRUE, FALSE, FALSE, FALSE, 0, <<>>)
TableWithoutHead == PageShape(TRUE, TRUE, TRUE, FALSE, TRUE, 0, <<>>)
TableWithoutBody == PageShape(TRUE, TRUE, TRUE, TRUE, FALSE, 0, <<>>)

RowLists == UNION {[1..n -> ColumnCounts] : n \in 0..MaxRows}

DescriptionPages == {SectionMissing, SectionEmpty, SectionWithText}
RestrictionPages == {SectionMissing, SectionWithText}
TablePages ==
    {SectionMissing, SectionWithText, TableWithoutHead, TableWithoutBody}
        \cup {PageShape(TRUE, TRUE, TRUE, TRUE, TRUE, th, rows) :
                  th \in ColumnCounts, rows \in RowLists}

\* What a detail task ends with: a value and the warnings it logged, or an
\* exception.
NotRun == [state |-> "pending", value |-> <<>>, exc |-> "", warnings |-> {}]
Returns(value, warnings) ==
    [state |-> "returned", value |-> value, exc |-> "", warnings |-> warnings]
Raises(exc) == [state |-> "raised", value |-> <<>>, exc |-> exc, warnings |-> {}]

\* Python's None, and the first non-empty line of a section's text.
NoneValue == <<"None">>
FirstLine == <<"text">>
RestrictionsDict == <<"restrictions">>

\* get_class_description: a missing section is a warning and the empty
\* string; a section without a non-empty line falls off the loop.
description_of(p) ==
    IF ~p.section THEN Returns(<<>>, {"no description"})
    ELSE IF p.text THEN Returns(FirstLine, {})
    ELSE Returns(NoneValue, {})

\* get_class_restrictions up to the list of the section's children:
\* soup.find gives None for a missing section and .children is read from it.
restrictions_of(p) ==
    IF ~p.section THEN Raises("AttributeError")
    ELSE Returns(RestrictionsDict, {})

\* The rows a table parser keeps: those with as many cells as the head.
kept_rows(p) == SelectSeq(p.rows, LAMBDA cols : cols = p.th)

\* The table walk get_class_corequisites and get_class_crosslists share, with
\* the number of columns each of them knows.
table_of(p, known_columns) ==
    IF ~p.section THEN Raises("AttributeError")
    ELSE IF ~p.table THEN Returns(<<>>, {})
    ELSE IF ~p.thead \/ ~p.tbody THEN Returns(<<>>, {})
    ELSE IF p.th # known_columns THEN Returns(<<>>, {"unexpected columns"})
    ELSE Returns(kept_rows(p),
                 IF Len(kept_rows(p)) # Len(p.rows) THEN {"mismatched row"} ELSE {})

corequisites_of(p) == table_of(p, 3)
crosslists_of(p) == table_of(p, 5)

\* process_class_details has created the detail tasks of one class and the
\* server has answered each of them with some page.
InitDetails ==
    /\ EngineInit /\ CodeIdle /\ DataIdle /\ CliIdle /\ LoopInit /\ ParserIdle /\ PostIdle
    /\ \E d \in DescriptionPages, r \in RestrictionPages, c \in TablePages, x \in TablePages :
          page = [e \in Endpoints |->
                     CASE e = "description" -> d
                       [] e = "restrictions" -> r
                       [] e = "corequisites" -> c
                       [] e = "crosslists" -> x]
    /\ detail_ret = [e \in Endpoints |-> NotRun]
    /\ detail_log = {}
    /\ class_task = "gathering"
    /\ subj_task = "gathering"

\* A detail task runs to its end once its response is there; a sibling that
\* is ready may still run after another task has raised, until the group
\* cancels what is pending.
DetailTask(e, outcome) ==
    /\ class_task = "gathering"
    /\ detail_ret[e].state = "pending"
    /\ detail_ret' = [detail_ret EXCEPT ![e] = outcome]
    /\ detail_log' = detail_log \cup {<<e, w>> : w \in outcome.warnings}
    /\ UNCHANGED <<page, class_task, subj_task>>
    /\ UNCHANGED <<engineVars, codeVars, dataVars, cliVars, loopVars, parserVars,
                   postVars>>

get_class_description == DetailTask("description", description_of(page["description"]))

get_class_restrictions_section ==
    DetailTask("restrictions", restrictions_of(page["restrictions"]))

get_class_corequisites == DetailTask("corequisites", corequisites_of(page["corequisites"]))

get_class_crosslists == DetailTask("crosslists", crosslists_of(page["crosslists"]))

\* The class's task group ends: with every task returned the class entry is
\* filled; with a task raised the others are cancelled and the group raises
\* an exception group out of process_class_details.
class_task_group_exit ==
    /\ class_task = "gathering"
    /\ IF \E e \in Endpoints : detail_ret[e].state = "raised"
       THEN /\ detail_ret' = [e \in Endpoints |->
                                 IF detail_ret[e].state = "pending"
                                 THEN [NotRun EXCEPT !.state = "cancelled"]
                                 ELSE detail_ret[e]]
            /\ class_task' = "failed"
       ELSE /\ \A e \in Endpoints : detail_ret[e].state = "returned"
            /\ class_task' = "filled"
            /\ UNCHANGED detail_ret
    /\ UNCHANGED <<page, detail_log, subj_task>>
    /\ UNCHANGED <<engineVars, codeVars, dataVars, cliVars, loopVars, parserVars,
                   postVars>>

\* The subject's task group ends: a failed class task leaves it as an
\* exception group, which the subject's except clause either catches or not.
subject_task_group_exit ==
    /\ subj_task = "gathering"
    /\ class_task \in {"filled", "failed"}
    /\ subj_task' = IF class_task = "filled" THEN "returned"
                    ELSE IF subj_catches("ExceptionGroup") THEN "caught"
                    ELSE "raised"
    /\ UNCHANGED <<page, detail_ret, detail_log, class_task>>
    /\ UNCHANGED <<engineVars, codeVars, dataVars, cliVars, loopVars, parserVars,
                   postVars>>

NextDetails ==
    \/ get_class_description
    \/ get_class_restrictions_section
    \/ get_class_corequisites
    \/ get_class_crosslists
    \/ class_task_group_exit
    \/ subject_task_group_exit

SpecDetails == InitDetails /\ [][NextDetails]_vars

\* The shapes the claim calls unexpected: a section missing from the page, or
\* a table head with another number of columns than the parser knows.
SectionAnomaly(e) == ~page[e].section
ColumnAnomaly(e, known_columns) ==
    /\ page[e].section /\ page[e].table /\ page[e].thead /\ page[e].tbody
    /\ page[e].th # known_columns

\* C31: an unexpected response shape in a class-detail endpoint (a missing
\* section or table, a wrong column count) ends as a logged warning with an
\* empty or skipped result: no detail task ends with an exception, the class
\* record is not failed and neither is the subject.
C31_ShapeAnomalyIsWarning ==
    /\ \A e \in Endpoints : detail_ret[e].state # "raised"
    /\ class_task # "failed"
    /\ subj_task # "raised"
    /\ \A e \in Endpoints :
          (detail_ret[e].state = "returned" /\ SectionAnomaly(e))
              => (detail_ret[e].value = <<>> /\ detail_ret[e].warnings # {})
    /\ (detail_ret["corequisites"].state = "returned" /\ ColumnAnomaly("corequisites", 3))
           => (detail_ret["corequisites"].value = <<>>
                  /\ <<"corequisites", "unexpected columns">> \in detail_log)
    /\ (detail_ret["crosslists"].state = "returned" /\ ColumnAnomaly("crosslists", 5))
           => (detail_ret["crosslists"].value = <<>>
                  /\ <<"crosslists", "unexpected columns">> \in detail_log)

====
